---- MODULE Spec2Model ----
(***************************************************************************)
(* AphexPipeline stage scripts as state machines.                          *)
(*                                                                         *)
(*   Spec       one EnvironmentDeploymentStage.run()                       *)
(*              (pipeline-scripts/environment_deployment_stage.py)         *)
(*   BuildSpec  one BuildStage.run() (pipeline-scripts/build_stage.py)     *)
(*                                                                         *)
(* Every call a stage makes to a collaborator (git, S3, STS, CDK,          *)
(* CloudFormation, the shell) is a nondeterministic choice over the        *)
(* outcomes that collaborator can produce; each such call is appended to   *)
(* a call log, which is what the ordering properties are stated over.      *)
(***************************************************************************)
EXTENDS Integers, Sequences, FiniteSets

\* ------------------------------------------------------------------ bounds

\* Longest env.stacks list explored.
MaxStacks == 3

\* Longest build.commands list explored.
MaxCommands == 3

\* ----------------------------------------------------------------- helpers

\* Python's None for string-valued fields.
None == "None"

\* Python's None for dictionary-valued fields.
NoneDict == [none |-> TRUE]

Range(s) == {s[k] : k \in 1..Len(s)}

\* The entries of the call log s whose op field is op, in order.
RECURSIVE SelectOp(_, _)
SelectOp(s, op) ==
    IF s = <<>> THEN <<>>
    ELSE (IF Head(s).op = op THEN <<Head(s)>> ELSE <<>>) \o SelectOp(Tail(s), op)

\* ---------------------------------------------------- environment deploy
\* Inputs of EnvironmentDeploymentStage.__init__ and what its collaborators
\* may answer.

Accounts == {"111111111111", "222222222222"}

RoleNames == {"AphexPipelineCrossAccountRole", "TestCrossAccountRole"}

\* env.stacks: stack names are unique within an environment; the list order
\* is the deployment order and need not be the order of the names.
StackLists ==
    UNION {{[k \in 1..n |-> k], [k \in 1..n |-> n + 1 - k]} : n \in 0..MaxStacks}

\* artifact_path: absent, a well-formed S3 location, or a malformed one.
ArtifactPaths == {None, "s3://bucket/sha/", "bucket/sha/"}

CredentialVars == {"AWS_ACCESS_KEY_ID", "AWS_SECRET_ACCESS_KEY", "AWS_SESSION_TOKEN"}

\* The variables set_aws_context writes.
ContextVars == {"AWS_REGION", "AWS_DEFAULT_REGION", "CDK_DEFAULT_REGION",
                "CDK_DEFAULT_ACCOUNT"}

EnvironVars == CredentialVars \cup ContextVars

\* os.environ restricted to the variables the stage writes, all unset.
EmptyEnviron == [v \in EnvironVars |-> None]

\* A process started with credentials of its own in the environment.
AmbientEnviron ==
    [v \in EnvironVars |->
        CASE v = "AWS_ACCESS_KEY_ID" -> "AK-ambient"
          [] v = "AWS_SECRET_ACCESS_KEY" -> "SK-ambient"
          [] v = "AWS_SESSION_TOKEN" -> "ST-ambient"
          [] OTHER -> None]

\* What sts.assume_role returns under response['Credentials'].
StsCredentials ==
    {[AccessKeyId |-> "AK-assumed", SecretAccessKey |-> "SK-assumed",
      SessionToken |-> "ST-assumed", Expiration |-> "later"]}

\* Error codes of a botocore ClientError from sts.assume_role.
StsErrorCodes == {"AccessDenied", "MalformedPolicyDocument"}

\* What describe_stacks may report as a stack's Outputs.
OutputLists ==
    {<<>>,
     <<[output_key |-> "Url", output_value |-> "https://x", description |-> None,
        export_name |-> None]>>}

VARIABLES
    environment,            \* self.environment: [name, account, stacks]
    artifact_path,          \* self.artifact_path
    cross_account_role_name,\* self.cross_account_role_name
    stack_results,          \* self.stack_results
    current_account_id,     \* self.current_account_id
    assumed_credentials,    \* self.assumed_credentials
    os_environ,             \* os.environ, the credential variables
    environ0,               \* os.environ when the stage was constructed
    results,                \* deploy_stacks_in_order's local list
    idx,                    \* the loop index of the synth/deploy loops
    pc,                     \* the step run() is about to take
    exc,                    \* the EnvironmentDeploymentError being handled
    ret,                    \* what run() returned
    calls,                  \* the calls made to collaborators, in order
    outputs_file,           \* /tmp/stack-outputs.json
    error_file              \* /tmp/deployment-error.json

deployVars ==
    <<environment, artifact_path, cross_account_role_name, stack_results,
      current_account_id, assumed_credentials, os_environ, environ0, results,
      idx, pc, exc, ret, calls, outputs_file, error_file>>

VARIABLES
    build_commands,         \* self.build_commands
    s3_bucket,              \* run()'s s3_bucket argument
    b_pc,                   \* the step BuildStage.run() is about to take
    b_i,                    \* execute_build_commands' loop index
    b_calls,                \* the calls made to git and the shell, in order
    b_exc,                  \* the BuildStageError being handled / raised
    b_ret,                  \* the ArtifactMetadata run() returned
    workspace_file,         \* a file in the workspace the commands append to
    artifacts_files,        \* the files under self.artifacts_dir
    metadata_json,          \* the content of artifacts_dir/metadata.json
    s3_objects              \* the keys stored in the artifact bucket

buildVars ==
    <<build_commands, s3_bucket, b_pc, b_i, b_calls, b_exc, b_ret,
      workspace_file, artifacts_files, metadata_json, s3_objects>>

VARIABLES
    test_commands,          \* self.test_commands
    environment_name,       \* self.environment_name
    test_results,           \* self.test_results
    t_pc,                   \* the step TestExecutionStage.run() is about to take
    t_i,                    \* how many commands execute_all_tests has run
    t_results,              \* execute_all_tests' local list
    t_calls,                \* the commands handed to the shell, in order
    t_exc,                  \* the TestExecutionError run() raised
    t_ret,                  \* the TestExecutionResult run() returned
    test_results_json,      \* the content of /tmp/test-results.json
    test_logs               \* how many files test-<i>.log exist in /tmp/test-logs

testVars ==
    <<test_commands, environment_name, test_results, t_pc, t_i, t_results,
      t_calls, t_exc, t_ret, test_results_json, test_logs>>

VARIABLES
    config_file,            \* aphex-config.yaml in the workspace, as parsed
    continue_on_error,      \* run()'s continue_on_error argument
    config,                 \* self.config
    p_pc,                   \* the step PipelineDeploymentStage.run() is about to take
    p_calls,                \* the calls made to collaborators, in order
    p_exc,                  \* the PipelineDeploymentError run() raised
    template_yaml,          \* run()'s local template_yaml
    template_file,          \* the content of /tmp/workflow-template.yaml
    applied_template,       \* the WorkflowTemplate installed in the cluster
    generated               \* every generation so far: inputs and output

pipelineVars ==
    <<config_file, continue_on_error, config, p_pc, p_calls, p_exc,
      template_yaml, template_file, applied_template, generated>>

\* self.commit_sha, of whichever stage runs.
VARIABLES commit_sha

VARIABLES
    store,                  \* the objects of the artifact bucket
    last_upload,            \* the latest upload to the bucket: what was asked
    fetched                 \* what a download_artifacts_from_s3 call brought

storeVars == <<store, last_upload, fetched>>

\* The runs of the workflow the engine holds, oldest first: the template each
\* resolved when it started and the stages it has executed.
VARIABLES workflow_runs
engineVars == <<workflow_runs>>

\* The workflow metadata the recorders of monitoring.py keep in the bucket.
VARIABLES
    metadata_store,         \* the object metadata/workflows/<workflow_id>.json
    recorders               \* each writer's call in progress, if any

monitoringVars == <<metadata_store, recorders>>

\* One deploy-<env> node of the generated topology and the test-<env> node
\* after it, as the engine runs their container scripts.
VARIABLES
    n_env,                  \* the environment the nodes were generated for
    n_node,                 \* the node that runs: "deploy" or "test"
    n_pc,                   \* the statement of its script that runs next
    n_log,                  \* the statements run so far, with their exit codes
    n_files,                \* the files the deploy node's container wrote
    n_phase,                \* "Pending", "Running", "Succeeded" or "Failed"
    n_params                \* the input parameters the test node received

nodeVars == <<n_env, n_node, n_pc, n_log, n_files, n_phase, n_params>>

\* One pre-run validation: validate_all of validation.py, or main of
\* validation_stage.py.
VARIABLES
    args,                   \* the arguments, and what STS, cdk.json and the tools answer
    v_config,               \* config, once parse_config has returned it
    errors,                 \* the list of error messages collected so far
    v_i,                    \* the environment the credentials loop is at
    v_pc,                   \* the check that runs next
    v_ret                   \* what validate_all returns, or main exits with

validationVars == <<args, v_config, errors, v_i, v_pc, v_ret>>

\* What no stage's run() touches by itself.
auxVars == <<storeVars, engineVars, monitoringVars, nodeVars, validationVars>>

\* The variables of the four stage objects.
stageVars == <<deployVars, buildVars, testVars, pipelineVars, commit_sha>>

vars == <<stageVars, auxVars>>

\* Nothing has been published or fetched.
StoreIdle ==
    /\ store = {}
    /\ last_upload = NoneDict
    /\ fetched = NoneDict

\* No run of the workflow is followed.
EngineIdle == workflow_runs = <<>>
\* Most stages of one run that record to the workflow metadata side by side.
MaxWriters == 3

\* The stages that record, by position in the run.
Writers == 1..MaxWriters

\* A WorkflowMetadataRecorder that has made no call.
IdleRecorder == [pc |-> "idle", op |-> None, metadata |-> NoneDict]

\* No workflow metadata has been recorded and no recorder has made a call.
MonitoringIdle ==
    /\ metadata_store = NoneDict
    /\ recorders = [w \in Writers |-> IdleRecorder]

\* No node of a generated topology runs.
NodeIdle ==
    /\ n_env = NoneDict
    /\ n_node = None
    /\ n_pc = 0
    /\ n_log = <<>>
    /\ n_files = {}
    /\ n_phase = "Pending"
    /\ n_params = NoneDict

\* No validation runs.
ValidationIdle ==
    /\ args = NoneDict
    /\ v_config = NoneDict
    /\ errors = <<>>
    /\ v_i = 0
    /\ v_pc = "idle"
    /\ v_ret = NoneDict

AuxIdle ==
    StoreIdle /\ EngineIdle /\ MonitoringIdle /\ NodeIdle /\ ValidationIdle

\* What __init__ sets and run() never assigns.
deployInputs == <<environment, artifact_path, cross_account_role_name, environ0>>

\* The stage object exists but is not used by this specification.
BuildIdle ==
    /\ build_commands = <<>>
    /\ s3_bucket = None
    /\ b_pc = "idle"
    /\ b_i = 0
    /\ b_calls = <<>>
    /\ b_exc = <<>>
    /\ b_ret = NoneDict
    /\ workspace_file = <<>>
    /\ artifacts_files = {}
    /\ metadata_json = NoneDict
    /\ s3_objects = {}

\* The stage object exists but is not used by this specification.
TestIdle ==
    /\ test_commands = <<>>
    /\ environment_name = "dev"
    /\ test_results = <<>>
    /\ t_pc = "idle"
    /\ t_i = 0
    /\ t_results = <<>>
    /\ t_calls = <<>>
    /\ t_exc = <<>>
    /\ t_ret = NoneDict
    /\ test_results_json = NoneDict
    /\ test_logs = 0

\* The stage object exists but is not used by this specification.
PipelineIdle ==
    /\ config_file = NoneDict
    /\ continue_on_error = TRUE
    /\ config = NoneDict
    /\ p_pc = "idle"
    /\ p_calls = <<>>
    /\ p_exc = <<>>
    /\ template_yaml = NoneDict
    /\ template_file = NoneDict
    /\ applied_template = NoneDict
    /\ generated = <<>>

\* assume_cross_account_role: role_arn = f"arn:aws:iam::{account}:role/{name}"
RoleArn(target_account, role_name) ==
    <<"arn:aws:iam::", target_account, ":role/", role_name>>

\* f"AphexPipeline-{self.environment.name}"
SessionName(env_name) == <<"AphexPipeline-", env_name>>

\* A ClientError message that drops the provider's error code.
MessageWithoutCode(role_arn, error_code, error_msg) ==
    <<"Failed to assume cross-account role ">> \o role_arn \o <<": ", error_msg>>

\* The message of the error assume_cross_account_role raises on a ClientError.
ClientErrorMessage(role_arn, error_code, error_msg) ==
    <<"Failed to assume cross-account role ">> \o role_arn
        \o <<": ", error_code, " - ", error_msg>>

\* The message of the error assume_cross_account_role raises on any other
\* exception e: only str(e) is kept.
OtherErrorMessage(text) == <<"Failed to assume cross-account role: ", text>>

\* The commits a repository holds.
GitCommits == {"sha1", "sha2"}

\* What the three git commands of clone_repository can do: git clone fails;
\* git checkout <commit_sha> fails; or both succeed and git rev-parse HEAD
\* prints the commit the workspace is at.
GitOutcomes ==
    {[cloned |-> FALSE, checked_out |-> FALSE, head |-> None],
     [cloned |-> TRUE, checked_out |-> FALSE, head |-> None]}
    \cup {[cloned |-> TRUE, checked_out |-> TRUE, head |-> h] : h \in GitCommits}

\* A checkout that does not compare HEAD with the commit asked for.
AcceptsAnyHead(git, sha) == git.cloned /\ git.checked_out

\* clone_repository returns normally: both commands exited zero
\* (check=True) and actual_sha == self.commit_sha.
CheckedOut(git, sha) == git.cloned /\ git.checked_out /\ git.head = sha

\* The message of the error clone_repository raises.
CloneErrorMessage(git, sha) ==
    IF git.cloned /\ git.checked_out
    THEN <<"Failed to clone repository: ", "Failed to checkout correct commit. ",
           "Expected: ", sha, ", Got: ", git.head>>
    ELSE <<"Git operation failed">>

\* The entry of the call log for clone_repository.
CloneCall(git, sha) == [op |-> "clone", ok |-> CheckedOut(git, sha), head |-> git.head]

\* __init__, for every input explored.
DeployInit ==
    /\ commit_sha = "sha1"
    /\ environment \in [name : {"dev"}, region : {"us-east-1"},
                         account : Accounts, stacks : StackLists]
    /\ artifact_path \in ArtifactPaths
    /\ cross_account_role_name \in RoleNames
    /\ stack_results = <<>>
    /\ current_account_id = None
    /\ assumed_credentials = NoneDict
    /\ os_environ \in {EmptyEnviron, AmbientEnviron}
    /\ environ0 = os_environ
    /\ results = <<>>
    /\ idx = 0
    /\ pc = "clone"
    /\ exc = <<>>
    /\ ret = NoneDict
    /\ calls = <<>>
    /\ outputs_file = NoneDict
    /\ error_file = NoneDict

Init == DeployInit /\ BuildIdle /\ TestIdle /\ PipelineIdle /\ AuxIdle

\* A run() that goes from the artifact download straight to set_aws_context.
StepAfterSkippingResolver(step) ==
    CASE step = "clone" -> "download"
      [] step = "download" -> "context"
      [] step = "resolve" -> "context"
      [] step = "context" -> "synth"

\* The order of run()'s steps 1 to 4: the step that follows a step that
\* did not raise.
StepAfter(step) ==
    CASE step = "clone" -> "download"
      [] step = "download" -> "resolve"
      [] step = "resolve" -> "context"
      [] step = "context" -> "synth"

\* raise EnvironmentDeploymentError(msg) inside run()'s try block.
Raise(msg) ==
    /\ exc' = msg
    /\ pc' = "except"

\* Step 1: clone_repository: git clone, git checkout, git rev-parse HEAD.
CloneRepository ==
    /\ pc = "clone"
    /\ \E git \in GitOutcomes :
        /\ calls' = Append(calls, CloneCall(git, commit_sha))
        /\ IF CheckedOut(git, commit_sha)
           THEN /\ pc' = StepAfter("clone")
                /\ exc' = exc
           ELSE Raise(CloneErrorMessage(git, commit_sha))
    /\ UNCHANGED <<deployInputs, stack_results, current_account_id,
                   assumed_credentials, os_environ, results, idx, ret,
                   outputs_file, error_file>>
    /\ UNCHANGED <<buildVars, testVars, pipelineVars, commit_sha, auxVars>>

\* A download that raises when it finds no object under the prefix.
EmptyDownloadRaises(outcome) == outcome \in {"error", "empty"}

\* What makes download_artifacts_from_s3 raise once the path is parsed: a
\* ClientError or another exception of the listing or of a download;
\* downloaded_count == 0 only prints a warning.
DownloadRaises(outcome) == outcome = "error"

\* Step 2: download_artifacts_from_s3, skipped without an artifact path.
\* No object under the prefix ("empty") is a warning only.
DownloadArtifacts ==
    /\ pc = "download"
    /\ IF artifact_path = None
       THEN /\ pc' = StepAfter("download")
            /\ UNCHANGED <<calls, exc>>
       ELSE IF artifact_path # "s3://bucket/sha/"
       THEN /\ Raise(<<"Failed to download artifacts from S3: ", "Invalid S3 path">>)
            /\ calls' = Append(calls, [op |-> "download", outcome |-> "invalid"])
       ELSE \E outcome \in {"objects", "empty", "error"} :
            /\ calls' = Append(calls, [op |-> "download", outcome |-> outcome])
            /\ IF DownloadRaises(outcome)
               THEN Raise(<<"S3 download failed">>)
               ELSE /\ pc' = StepAfter("download")
                    /\ exc' = exc
    /\ UNCHANGED <<deployInputs, stack_results, current_account_id,
                   assumed_credentials, os_environ, results, idx, ret,
                   outputs_file, error_file>>
    /\ UNCHANGED <<buildVars, testVars, pipelineVars, commit_sha, auxVars>>

\* A resolver that assumes the role whatever the current account is.
AlwaysAssumes(current, target) == TRUE

\* if self.current_account_id != self.environment.account
NeedsRoleAssumption(current, target) == current # target

\* The dictionary assume_cross_account_role builds from response['Credentials'].
ReturnedCredentials(c) ==
    [AccessKeyId |-> c.AccessKeyId, SecretAccessKey |-> c.SecretAccessKey,
     SessionToken |-> c.SessionToken]

\* os.environ after the three credential assignments.
InstallCredentials(environ, c) ==
    [environ EXCEPT !["AWS_ACCESS_KEY_ID"] = c.AccessKeyId,
                    !["AWS_SECRET_ACCESS_KEY"] = c.SecretAccessKey,
                    !["AWS_SESSION_TOKEN"] = c.SessionToken]

\* The sts.assume_role call the resolver makes for this stage.
AssumeRoleCall(outcome, response) ==
    [op |-> "assume_role",
     RoleArn |-> RoleArn(environment.account, cross_account_role_name),
     RoleSessionName |-> SessionName(environment.name),
     outcome |-> outcome,
     response |-> response]

\* Step 3: detect_and_assume_cross_account_role, with get_current_account_id
\* and assume_cross_account_role.
DetectAndAssumeCrossAccountRole ==
    /\ pc = "resolve"
    /\ \/ \* sts.get_caller_identity fails
          /\ calls' = calls \o <<[op |-> "resolver"],
                                 [op |-> "get_caller_identity", ok |-> FALSE]>>
          /\ Raise(<<"Failed to get current account ID: ", "sts error">>)
          /\ UNCHANGED <<current_account_id, assumed_credentials, os_environ>>
       \/ \E current \in Accounts :
          /\ current_account_id' = current
          /\ IF NeedsRoleAssumption(current, environment.account)
             THEN \/ \E c \in StsCredentials :
                     /\ calls' = calls \o <<[op |-> "resolver"],
                                    [op |-> "get_caller_identity", ok |-> TRUE],
                                    AssumeRoleCall("credentials", c)>>
                     /\ assumed_credentials' = ReturnedCredentials(c)
                     /\ os_environ' = InstallCredentials(os_environ,
                                                         ReturnedCredentials(c))
                     /\ pc' = StepAfter("resolve")
                     /\ exc' = exc
                  \/ \E code \in StsErrorCodes, msg \in {"not authorized"} :
                     /\ calls' = calls \o <<[op |-> "resolver"],
                                    [op |-> "get_caller_identity", ok |-> TRUE],
                                    AssumeRoleCall("ClientError",
                                        [Code |-> code, Message |-> msg])>>
                     /\ Raise(ClientErrorMessage(
                            RoleArn(environment.account, cross_account_role_name),
                            code, msg))
                     /\ UNCHANGED <<assumed_credentials, os_environ>>
                  \/ \E text \in {"connection error"} :
                     /\ calls' = calls \o <<[op |-> "resolver"],
                                    [op |-> "get_caller_identity", ok |-> TRUE],
                                    AssumeRoleCall("Exception", [text |-> text])>>
                     /\ Raise(OtherErrorMessage(text))
                     /\ UNCHANGED <<assumed_credentials, os_environ>>
             ELSE /\ calls' = calls \o <<[op |-> "resolver"],
                                    [op |-> "get_caller_identity", ok |-> TRUE]>>
                  /\ pc' = StepAfter("resolve")
                  /\ UNCHANGED <<assumed_credentials, os_environ, exc>>
    /\ UNCHANGED <<deployInputs, stack_results, results, idx, ret, outputs_file,
                   error_file>>
    /\ UNCHANGED <<buildVars, testVars, pipelineVars, commit_sha, auxVars>>

\* A synthesis loop that stops after the first stack.
SynthesizesOnlyFirst(i, stacks) == i < 1 /\ i < Len(stacks)

\* A synthesis loop that is one stack short.
SkipsLastSynthesis(i, stacks) == i + 1 < Len(stacks)

\* synthesize_all_stacks' for i, stack in enumerate(self.environment.stacks, 1):
\* is there a stack after the i-th?
MoreToSynthesize(i, stacks) == i < Len(stacks)

\* deploy_stacks_in_order's for i, stack in enumerate(self.environment.stacks, 1):
\* is there a stack after the i-th?
MoreToDeploy(i, stacks) == i < Len(stacks)

\* Step 4: set_aws_context, then the head of synthesize_all_stacks' loop
\* (and, for an environment without stacks, of everything up to step 7).
SetAwsContext ==
    /\ pc = "context"
    /\ os_environ' = [os_environ EXCEPT
            !["AWS_REGION"] = environment.region,
            !["AWS_DEFAULT_REGION"] = environment.region,
            !["CDK_DEFAULT_REGION"] = environment.region,
            !["CDK_DEFAULT_ACCOUNT"] = environment.account]
    /\ IF MoreToSynthesize(0, environment.stacks)
       THEN /\ pc' = StepAfter("context")
            /\ idx' = 1
            /\ UNCHANGED stack_results
       ELSE /\ pc' = "save_outputs"
            /\ idx' = idx
            /\ stack_results' = <<>>
    /\ UNCHANGED <<deployInputs, current_account_id, assumed_credentials,
                   results, exc, ret, calls, outputs_file, error_file>>
    /\ UNCHANGED <<buildVars, testVars, pipelineVars, commit_sha, auxVars>>

\* Step 5: one iteration of synthesize_all_stacks: synthesize_cdk_stack for
\* the idx-th stack; after the last one, deploy_stacks_in_order begins.
SynthesizeStack ==
    /\ pc = "synth"
    /\ \E ok \in BOOLEAN :
        /\ calls' = Append(calls, [op |-> "synth", pos |-> idx,
                                   stack |-> environment.stacks[idx], ok |-> ok])
        /\ IF ~ok
           THEN /\ Raise(<<"CDK synthesis failed for stack ">>)
                /\ UNCHANGED <<idx, results>>
           ELSE /\ exc' = exc
                /\ IF MoreToSynthesize(idx, environment.stacks)
                   THEN /\ idx' = idx + 1
                        /\ UNCHANGED <<pc, results>>
                   ELSE /\ pc' = "deploy"
                        /\ idx' = 1
                        /\ results' = <<>>
    /\ UNCHANGED <<deployInputs, stack_results, current_account_id,
                   assumed_credentials, os_environ, ret, outputs_file,
                   error_file>>
    /\ UNCHANGED <<buildVars, testVars, pipelineVars, commit_sha, auxVars>>

\* capture_stack_outputs' describe_stacks call: the Outputs of the stack, or
\* an error.
DescribeOutcomes ==
    {[ok |-> TRUE, outputs |-> o] : o \in OutputLists}
        \cup {[ok |-> FALSE, outputs |-> <<>>]}

\* A deployment loop that goes on after a failed stack.
NeverHalts(result) == FALSE

\* if result.status == "failed": raise
HaltsOn(result) == result.status = "failed"

\* capture_stack_outputs: the outputs describe_stacks reports, or [] when
\* the stack is not found, has no outputs or the call fails.
CaptureStackOutputs(described) ==
    IF described.ok THEN described.outputs ELSE <<>>

\* A result that is a success only if outputs were captured.
SuccessNeedsOutputs(stack, deployed, outputs) ==
    IF deployed /\ outputs # <<>>
    THEN [stack_name |-> stack, status |-> "success", outputs |-> outputs,
          error_message |-> <<>>]
    ELSE [stack_name |-> stack, status |-> "failed", outputs |-> <<>>,
          error_message |-> <<"CDK deployment failed for stack ", stack>>]

\* deploy_cdk_stack's result for a stack: cdk deploy exits zero or not; after
\* a zero exit capture_stack_outputs returns the outputs described, or []
\* when describe_stacks fails.
DeployResult(stack, deployed, outputs) ==
    IF deployed
    THEN [stack_name |-> stack, status |-> "success", outputs |-> outputs,
          error_message |-> <<>>]
    ELSE [stack_name |-> stack, status |-> "failed", outputs |-> <<>>,
          error_message |-> <<"CDK deployment failed for stack ", stack>>]

\* Step 6: one iteration of deploy_stacks_in_order: deploy_cdk_stack for the
\* idx-th stack, append, halt on failure; after the last stack the list is
\* returned and assigned to self.stack_results. A raise abandons the local
\* list.
DeployStack ==
    /\ pc = "deploy"
    /\ \E deployed \in BOOLEAN, described \in DescribeOutcomes :
        LET stack == environment.stacks[idx]
            outputs == CaptureStackOutputs(described)
            result == DeployResult(stack, deployed, outputs)
            call == [op |-> "deploy", pos |-> idx, stack |-> stack,
                     ok |-> deployed,
                     role_arn |-> assumed_credentials # NoneDict]
        IN  /\ deployed \/ described = [ok |-> FALSE, outputs |-> <<>>]
            /\ calls' = IF deployed
                        THEN calls \o <<call, [op |-> "describe_stacks",
                                               stack |-> stack,
                                               ok |-> described.ok,
                                               outputs |-> described.outputs]>>
                        ELSE Append(calls, call)
            /\ IF HaltsOn(result)
               THEN /\ Raise(<<"Stack deployment failed: ", stack,
                               ". Halting deployment.">>)
                    /\ results' = <<>>
                    /\ UNCHANGED <<idx, stack_results>>
               ELSE /\ exc' = exc
                    /\ IF MoreToDeploy(idx, environment.stacks)
                       THEN /\ results' = Append(results, result)
                            /\ idx' = idx + 1
                            /\ UNCHANGED <<pc, stack_results>>
                       ELSE /\ results' = Append(results, result)
                            /\ stack_results' = Append(results, result)
                            /\ pc' = "save_outputs"
                            /\ idx' = idx
    /\ UNCHANGED <<deployInputs, current_account_id, assumed_credentials,
                   os_environ, ret, outputs_file, error_file>>
    /\ UNCHANGED <<buildVars, testVars, pipelineVars, commit_sha, auxVars>>

\* A document that names the stacks and holds no output of any.
StackNamesOnly(rs) == [name \in {rs[k].stack_name : k \in 1..Len(rs)} |-> <<>>]

\* What save_outputs_to_file writes: stack name -> output key -> fields.
ConsolidatedOutputs(rs) ==
    [name \in {rs[k].stack_name : k \in 1..Len(rs)} |->
        LET r == rs[CHOOSE k \in 1..Len(rs) :
                        /\ rs[k].stack_name = name
                        /\ \A j \in k + 1..Len(rs) : rs[j].stack_name # name]
        IN  [key \in {r.outputs[k].output_key : k \in 1..Len(r.outputs)} |->
                LET o == r.outputs[CHOOSE k \in 1..Len(r.outputs) :
                            /\ r.outputs[k].output_key = key
                            /\ \A j \in k + 1..Len(r.outputs) :
                                    r.outputs[j].output_key # key]
                IN  [value |-> o.output_value, description |-> o.description,
                     export_name |-> o.export_name]]]

\* An except block that returns what the success path returns.
ResultAlwaysSuccess(status) ==
    [environment_name |-> environment.name, region |-> environment.region,
     account |-> environment.account, commit_sha |-> commit_sha,
     stack_results |-> stack_results,
     status |-> "success"]

\* The EnvironmentDeploymentResult run() builds.
DeploymentResult(status) ==
    [environment_name |-> environment.name, region |-> environment.region,
     account |-> environment.account, commit_sha |-> commit_sha,
     stack_results |-> stack_results,
     status |-> status]

\* Step 7 and the return: save_outputs_to_file (a failure to write is only
\* a warning), then return the success result.
SaveOutputsAndReturn ==
    /\ pc = "save_outputs"
    /\ \E written \in BOOLEAN :
        outputs_file' = IF written THEN [doc |-> ConsolidatedOutputs(stack_results)]
                        ELSE outputs_file
    /\ ret' = DeploymentResult("success")
    /\ pc' = "returned"
    /\ UNCHANGED <<deployInputs, stack_results, current_account_id,
                   assumed_credentials, os_environ, results, idx, exc, calls,
                   error_file>>
    /\ UNCHANGED <<buildVars, testVars, pipelineVars, commit_sha, auxVars>>

\* next((r for r in self.stack_results if r.status == "failed"), None)
FailedStack(rs) ==
    IF \E k \in 1..Len(rs) : rs[k].status = "failed"
    THEN rs[CHOOSE k \in 1..Len(rs) :
                /\ rs[k].status = "failed"
                /\ \A j \in 1..k - 1 : rs[j].status # "failed"]
    ELSE NoneDict

\* Whether the except block of run() calls save_error_details.
SavesErrorDetails(rs) == rs # <<>> /\ FailedStack(rs) # NoneDict

\* except EnvironmentDeploymentError: save_error_details for the failed stack
\* found in self.stack_results, if any, then return the failed result.
HandleFailure ==
    /\ pc = "except"
    /\ IF SavesErrorDetails(stack_results)
       THEN \E written \in BOOLEAN :
            /\ calls' = calls \o
                    <<[op |-> "save_error_details",
                       stack |-> FailedStack(stack_results).stack_name],
                      [op |-> "describe_stack_events",
                       stack |-> FailedStack(stack_results).stack_name]>>
            /\ error_file' =
                    IF written
                    THEN [environment |-> environment.name,
                          stack_name |-> FailedStack(stack_results).stack_name,
                          commit_sha |-> commit_sha,
                          error_message |-> exc]
                    ELSE error_file
       ELSE UNCHANGED <<calls, error_file>>
    /\ ret' = DeploymentResult("failed")
    /\ pc' = "returned"
    /\ UNCHANGED <<deployInputs, stack_results, current_account_id,
                   assumed_credentials, os_environ, results, idx, exc,
                   outputs_file>>
    /\ UNCHANGED <<buildVars, testVars, pipelineVars, commit_sha, auxVars>>

DeployNext ==
    \/ CloneRepository
    \/ DownloadArtifacts
    \/ DetectAndAssumeCrossAccountRole
    \/ SetAwsContext
    \/ SynthesizeStack
    \/ DeployStack
    \/ SaveOutputsAndReturn
    \/ HandleFailure

Next == DeployNext

Spec == Init /\ [][Next]_vars

\* ------------------------------------------------- environment deploy: claims

Deploys == SelectOp(calls, "deploy")

Synths == SelectOp(calls, "synth")

AssumeRoleCalls == SelectOp(calls, "assume_role")

ResolverCalls == SelectOp(calls, "resolver")

Returned == pc = "returned"

\* The positions in the call log of the calls with this op.
CallsAt(op) == {k \in 1..Len(calls) : calls[k].op = op}

\* C1: the returned stack_results holds one entry per stack whose deployment
\* was attempted, in deployment order (k entries when stack k is the first
\* to fail), and n entries only if all n stacks succeeded.
C1_StackResultsLengthIsAttempted ==
    Returned =>
        /\ Len(ret.stack_results) = Len(Deploys)
        /\ \A k \in 1..Len(ret.stack_results) :
                /\ ret.stack_results[k].stack_name = environment.stacks[k]
                /\ (ret.stack_results[k].status = "success") = Deploys[k].ok
        /\ Len(ret.stack_results) = Len(environment.stacks) /\ Len(Deploys) > 0
                => \A k \in 1..Len(Deploys) : Deploys[k].ok

\* C2: deployments are attempted one after the other in env.stacks order, and
\* no deployment is attempted after a failed one.
C2_SequentialFailFast ==
    /\ Len(Deploys) <= Len(environment.stacks)
    /\ \A k \in 1..Len(Deploys) :
            /\ Deploys[k].pos = k
            /\ Deploys[k].stack = environment.stacks[k]
    /\ \A k \in 1..Len(Deploys) - 1 : Deploys[k].ok

\* Three stacks, the second fails, the run has returned.
C2_Witness ==
    /\ Returned
    /\ Len(environment.stacks) = 3
    /\ Len(Deploys) = 2
    /\ Deploys[1].ok
    /\ ~Deploys[2].ok

C4_ErrorDetailsAttempted ==
    Returned =>
        \A k \in CallsAt("deploy") :
            ~calls[k].ok =>
                \E j \in CallsAt("save_error_details") :
                    j > k /\ calls[j].stack = calls[k].stack

\* C5 as claimed: the synthesis of stack i+1 starts only after stack i was
\* deployed; a stack after a failed stack is never synthesized; and when the
\* synthesis of a stack fails, the stacks before it have been deployed.
C5_SynthesizeDeployPerStack ==
    /\ \A k \in CallsAt("synth") :
            calls[k].pos > 1 =>
                \E j \in CallsAt("deploy") : j < k /\ calls[j].pos = calls[k].pos - 1
    /\ \A k \in CallsAt("deploy") :
            ~calls[k].ok =>
                \A j \in CallsAt("synth") : calls[j].pos <= calls[k].pos
    /\ \A k \in CallsAt("synth") :
            ~calls[k].ok /\ calls[k].pos > 1 =>
                \E j \in CallsAt("deploy") : calls[j].pos = calls[k].pos - 1

\* C5 as amended: all stacks are synthesized in list order first; a stack is
\* deployed only after every stack was synthesized successfully; each
\* successful deploy is followed at once by the capture of that stack's
\* outputs; so a stack after a failed stack was synthesized but is never
\* deployed, and a failed synthesis of any stack leaves every stack undeployed.
C5_SynthesizeAllThenDeploy ==
    /\ \A k \in 1..Len(Synths) :
            /\ Synths[k].pos = k
            /\ Synths[k].stack = environment.stacks[k]
    /\ \A k \in 1..Len(Synths) - 1 : Synths[k].ok
    /\ \A k \in CallsAt("synth"), j \in CallsAt("deploy") : k < j
    /\ Deploys # <<>> =>
            /\ Len(Synths) = Len(environment.stacks)
            /\ \A k \in 1..Len(Synths) : Synths[k].ok
    /\ \A k \in 1..Len(Deploys) :
            /\ Deploys[k].stack = environment.stacks[k]
            /\ k < Len(Deploys) => Deploys[k].ok
    /\ \A k \in CallsAt("deploy") :
            calls[k].ok =>
                /\ k < Len(calls)
                /\ calls[k + 1].op = "describe_stacks"
                /\ calls[k + 1].stack = calls[k].stack
    /\ \A k \in CallsAt("describe_stacks") :
            /\ calls[k - 1].op = "deploy"
            /\ calls[k - 1].ok

\* Three stacks, all synthesized, the first deployment fails: the third
\* stack was synthesized and is never deployed.
C5_Witness ==
    /\ Returned
    /\ Len(environment.stacks) = 3
    /\ Len(Synths) = 3
    /\ Len(Deploys) = 1
    /\ ~Deploys[1].ok

\* C6: a stack is deployed only after its own synthesis succeeded in this
\* run; no stack is synthesized twice; and when no synthesis fails, a run
\* that gets to the stacks synthesizes all N of them.
C6_SynthesizedOnceBeforeDeploy ==
    /\ \A j \in CallsAt("deploy") :
            \E k \in CallsAt("synth") :
                /\ k < j
                /\ calls[k].stack = calls[j].stack
                /\ calls[k].ok
    /\ \A k, j \in CallsAt("synth") : calls[k].stack = calls[j].stack => k = j
    /\ (pc \in {"deploy", "save_outputs"} \/ (Returned /\ ret.status = "success"))
            => /\ Len(Synths) = Len(environment.stacks)
               /\ {Synths[k].stack : k \in 1..Len(Synths)} = Range(environment.stacks)

\* Three stacks synthesized and deployed, the run returned success.
C6_Witness ==
    /\ Returned
    /\ ret.status = "success"
    /\ Len(environment.stacks) = 3
    /\ Len(Synths) = 3
    /\ Len(Deploys) = 3

\* C7: once the resolver knows the current account: if it is the target
\* account there is no assume_role call, assumed_credentials is unset and the
\* credential variables are as the process found them; if it is another
\* account there is exactly one assume_role call, for
\* arn:aws:iam::<target.account>:role/<role_name>, and the three values it
\* returned are the assumed credentials and the credential variables.
C7_CrossAccountResolution ==
    /\ current_account_id = None => AssumeRoleCalls = <<>>
    /\ current_account_id # None /\ current_account_id = environment.account =>
            /\ AssumeRoleCalls = <<>>
            /\ assumed_credentials = NoneDict
            /\ \A v \in CredentialVars : os_environ[v] = environ0[v]
    /\ current_account_id # None /\ current_account_id # environment.account =>
            /\ Len(AssumeRoleCalls) = 1
            /\ AssumeRoleCalls[1].RoleArn =
                    <<"arn:aws:iam::", environment.account, ":role/",
                      cross_account_role_name>>
            /\ AssumeRoleCalls[1].outcome = "credentials" =>
                    LET c == AssumeRoleCalls[1].response
                    IN  /\ assumed_credentials =
                                [AccessKeyId |-> c.AccessKeyId,
                                 SecretAccessKey |-> c.SecretAccessKey,
                                 SessionToken |-> c.SessionToken]
                        /\ os_environ["AWS_ACCESS_KEY_ID"] = c.AccessKeyId
                        /\ os_environ["AWS_SECRET_ACCESS_KEY"] = c.SecretAccessKey
                        /\ os_environ["AWS_SESSION_TOKEN"] = c.SessionToken

\* A cross-account run whose process had credentials of its own: the
\* assumed ones replaced them.
C7_Witness ==
    /\ current_account_id # None
    /\ current_account_id # environment.account
    /\ environ0 = AmbientEnviron
    /\ Len(AssumeRoleCalls) = 1
    /\ os_environ["AWS_ACCESS_KEY_ID"] = "AK-assumed"

\* Whether checkout and artifact fetch both went through in this run.
CheckoutAndFetchSucceeded ==
    /\ \E k \in CallsAt("clone") : calls[k].ok
    /\ \A k \in CallsAt("download") : calls[k].outcome \in {"objects", "empty"}

\* The resolver, when called, comes after checkout and artifact fetch and
\* before every synthesis and deployment.
ResolverInPlace ==
    /\ \A k \in CallsAt("resolver") :
            /\ \E j \in CallsAt("clone") : j < k
            /\ \A j \in CallsAt("clone") \cup CallsAt("download") : j < k
    /\ \A j \in CallsAt("synth") \cup CallsAt("deploy") :
            \E k \in CallsAt("resolver") : k < j

\* C8 as claimed: every run calls the resolver exactly once, after checkout
\* and artifact fetch and before any synthesis or deployment.
C8_ResolverExactlyOnceEveryRun ==
    /\ Returned => Len(ResolverCalls) = 1
    /\ ResolverInPlace

\* C8 as amended: a run calls the resolver at most once, and exactly once
\* when its checkout and artifact fetch succeeded; the call comes after
\* those and before any synthesis or deployment.
C8_ResolverOnceAfterFetch ==
    /\ Len(ResolverCalls) <= 1
    /\ Returned /\ CheckoutAndFetchSucceeded => Len(ResolverCalls) = 1
    /\ Returned /\ ~CheckoutAndFetchSucceeded => Len(ResolverCalls) = 0
    /\ ResolverInPlace

\* A run with an artifact fetch, the resolver and a deployment.
C8_Witness ==
    /\ Returned
    /\ CallsAt("download") # {}
    /\ Len(ResolverCalls) = 1
    /\ Deploys # <<>>

\* Whether the error being handled names this string.
Carries(text) == \E k \in 1..Len(exc) : exc[k] = text

\* After a failed assume_role call: it stays the only one, no stack is
\* synthesized or deployed, and the run ends failed.
AssumeRoleFailureIsFatal ==
    \A k \in CallsAt("assume_role") :
        calls[k].outcome # "credentials" =>
            /\ Len(AssumeRoleCalls) = 1
            /\ Synths = <<>>
            /\ Deploys = <<>>
            /\ pc \in {"except", "returned"}
            /\ Returned => ret.status = "failed"

\* C9 as claimed: whenever the assume_role call fails, the error carries the
\* target account and the provider's error code and message, and the failure
\* is fatal.
C9_AnyFailureCarriesAccount ==
    /\ AssumeRoleFailureIsFatal
    /\ \A k \in CallsAt("assume_role") :
            /\ calls[k].outcome = "ClientError" =>
                    /\ Carries(environment.account)
                    /\ Carries(calls[k].response.Code)
                    /\ Carries(calls[k].response.Message)
            /\ calls[k].outcome = "Exception" =>
                    /\ Carries(environment.account)
                    /\ Carries(calls[k].response.text)

\* C9 as amended: when the provider rejects the call (a ClientError) the
\* error carries the target account and the provider's code and message;
\* when the call fails in any other way the error carries that failure's
\* text; either way the failure is fatal.
C9_ProviderErrorCarriesAccount ==
    /\ AssumeRoleFailureIsFatal
    /\ \A k \in CallsAt("assume_role") :
            /\ calls[k].outcome = "ClientError" =>
                    /\ Carries(environment.account)
                    /\ Carries(calls[k].response.Code)
                    /\ Carries(calls[k].response.Message)
            /\ calls[k].outcome = "Exception" =>
                    Carries(calls[k].response.text)

\* The provider denied the role and the run has returned.
C9_Witness ==
    /\ Returned
    /\ Len(AssumeRoleCalls) = 1
    /\ AssumeRoleCalls[1].outcome = "ClientError"
    /\ AssumeRoleCalls[1].response.Code = "AccessDenied"

\* ------------------------------------------------------------------ build
\* Inputs of BuildStage.__init__ and run(), and what git, the shell and S3
\* may answer.

CommitShas == {"sha1", "sha2"}

\* build.commands: the list order is the execution order and need not be
\* the order of the commands' names.
CommandLists ==
    UNION {{[k \in 1..n |-> k], [k \in 1..n |-> n + 1 - k]} : n \in 0..MaxCommands}

\* The exit codes of a shell command.
ExitCodes == {0, 1, 127}

\* The stage object exists but is not used by this specification.
DeployIdle ==
    /\ environment = [name |-> "dev", region |-> "us-east-1",
                      account |-> "111111111111", stacks |-> <<>>]
    /\ artifact_path = None
    /\ cross_account_role_name = "AphexPipelineCrossAccountRole"
    /\ stack_results = <<>>
    /\ current_account_id = None
    /\ assumed_credentials = NoneDict
    /\ os_environ = EmptyEnviron
    /\ environ0 = EmptyEnviron
    /\ results = <<>>
    /\ idx = 0
    /\ pc = "idle"
    /\ exc = <<>>
    /\ ret = NoneDict
    /\ calls = <<>>
    /\ outputs_file = NoneDict
    /\ error_file = NoneDict

\* __init__, for every input explored.
BuildInit ==
    /\ commit_sha \in CommitShas
    /\ build_commands \in CommandLists
    /\ s3_bucket \in {None, "bucket"}
    /\ b_pc = "clone"
    /\ b_i = 0
    /\ b_calls = <<>>
    /\ b_exc = <<>>
    /\ b_ret = NoneDict
    /\ workspace_file = <<>>
    /\ artifacts_files = {}
    /\ metadata_json = NoneDict
    /\ s3_objects = {}
    /\ DeployIdle
    /\ TestIdle
    /\ PipelineIdle
    /\ AuxIdle

\* raise BuildStageError(msg) inside run()'s try block.
BuildRaise(msg) ==
    /\ b_exc' = msg
    /\ b_pc' = "except"

\* A loop head that goes into the loop although the list is empty.
EntersLoopOnEmptyList(i, commands) == i < Len(commands) \/ commands = <<>>

\* A build that goes on to packaging with commands left to run.
SkipsRemainingCommands(i, commands) == FALSE

\* for i, command in enumerate(self.build_commands, 1): is there a command
\* after the i-th?
MoreCommands(i, commands) == i < Len(commands)

\* Step 1: clone_repository, then the head of execute_build_commands
\* (if not self.build_commands: return).
BuildCloneRepository ==
    /\ b_pc = "clone"
    /\ \E git \in GitOutcomes :
        /\ b_calls' = Append(b_calls, CloneCall(git, commit_sha))
        /\ IF ~CheckedOut(git, commit_sha)
           THEN /\ BuildRaise(CloneErrorMessage(git, commit_sha))
                /\ b_i' = b_i
           ELSE /\ b_exc' = b_exc
                /\ IF MoreCommands(0, build_commands)
                   THEN b_pc' = "commands" /\ b_i' = 1
                   ELSE b_pc' = "package" /\ b_i' = b_i
    /\ UNCHANGED <<build_commands, s3_bucket, b_ret, workspace_file,
                   artifacts_files, metadata_json, s3_objects>>
    /\ UNCHANGED <<deployVars, testVars, pipelineVars, commit_sha, auxVars>>

\* A build loop that goes on after a failed command.
IgnoresExitCode(exit_code) == FALSE

\* subprocess.run(..., check=True) raises CalledProcessError on a nonzero
\* exit, which execute_build_commands turns into BuildStageError.
CommandFailed(exit_code) == exit_code # 0

\* Step 2: one iteration of execute_build_commands. A command that exits
\* zero has had its effect on the workspace and may have left an artifact; a
\* command that exits nonzero may have had its effect before it failed.
ExecuteBuildCommand ==
    /\ b_pc = "commands"
    /\ \E exit_code \in ExitCodes, effect \in BOOLEAN, artifact \in BOOLEAN :
        LET command == build_commands[b_i]
        IN  /\ exit_code = 0 => effect
            /\ exit_code # 0 => ~artifact
            /\ b_calls' = Append(b_calls, [op |-> "run", pos |-> b_i,
                                           command |-> command,
                                           exit_code |-> exit_code])
            /\ workspace_file' = IF effect THEN Append(workspace_file, command)
                                 ELSE workspace_file
            /\ artifacts_files' = IF artifact
                                  THEN artifacts_files \cup {<<"out", command>>}
                                  ELSE artifacts_files
            /\ IF CommandFailed(exit_code)
               THEN /\ BuildRaise(<<"Build command failed: ", command,
                                    "Exit code: ", exit_code>>)
                    /\ b_i' = b_i
               ELSE /\ b_exc' = b_exc
                    /\ IF MoreCommands(b_i, build_commands)
                       THEN b_i' = b_i + 1 /\ b_pc' = b_pc
                       ELSE b_i' = b_i /\ b_pc' = "package"
    /\ UNCHANGED <<build_commands, s3_bucket, b_ret, metadata_json, s3_objects>>
    /\ UNCHANGED <<deployVars, testVars, pipelineVars, commit_sha, auxVars>>

\* Step 3: package_artifacts; an empty artifacts directory is a warning.
PackageArtifacts ==
    /\ b_pc = "package"
    /\ b_pc' = IF s3_bucket # None THEN "upload" ELSE "metadata"
    /\ UNCHANGED <<build_commands, s3_bucket, b_i, b_calls, b_exc, b_ret,
                   workspace_file, artifacts_files, metadata_json, s3_objects>>
    /\ UNCHANGED <<deployVars, testVars, pipelineVars, commit_sha, auxVars>>

\* An upload that leaves the commit out of the key.
KeyWithoutCommit(sha, relative_path) == <<"artifacts", "/">> \o relative_path

\* s3_key = f"{self.commit_sha}/{relative_path}"
S3Key(sha, relative_path) == <<sha, "/">> \o relative_path

\* Step 4: upload_artifacts_to_s3. A failing upload may have stored some of
\* the files already.
UploadArtifacts ==
    /\ b_pc = "upload"
    /\ \E ok \in BOOLEAN, stored \in SUBSET artifacts_files :
        /\ ok => stored = artifacts_files
        /\ ~ok => stored # artifacts_files \/ artifacts_files = {}
        /\ s3_objects' = s3_objects \cup {S3Key(commit_sha, f) : f \in stored}
        /\ b_calls' = Append(b_calls, [op |-> "upload", ok |-> ok])
        /\ IF ok
           THEN b_pc' = "metadata" /\ b_exc' = b_exc
           ELSE BuildRaise(<<"S3 upload failed">>)
    /\ UNCHANGED <<build_commands, s3_bucket, b_i, b_ret, workspace_file,
                   artifacts_files, metadata_json>>
    /\ UNCHANGED <<deployVars, testVars, pipelineVars, commit_sha, auxVars>>

\* create_artifact_metadata; artifact_path is str(self.artifacts_dir).
ArtifactMetadata(status, error_message) ==
    [commit_sha |-> commit_sha, artifact_path |-> <<"/workspace/artifacts">>,
     build_commands |-> build_commands, status |-> status,
     error_message |-> error_message]

\* Step 5: create and save the success metadata, and return it.
SaveMetadataAndReturn ==
    /\ b_pc = "metadata"
    /\ metadata_json' = ArtifactMetadata("success", <<>>)
    /\ artifacts_files' = artifacts_files \cup {<<"metadata.json">>}
    /\ b_ret' = ArtifactMetadata("success", <<>>)
    /\ b_pc' = "returned"
    /\ UNCHANGED <<build_commands, s3_bucket, b_i, b_calls, b_exc,
                   workspace_file, s3_objects>>
    /\ UNCHANGED <<deployVars, testVars, pipelineVars, commit_sha, auxVars>>

\* A handler that lets the error of its own persistence out.
RaisesPersistenceError(e, save_error) == IF save_error # <<>> THEN save_error ELSE e

\* The bare raise that ends the except block: the BuildStageError being
\* handled, whatever the persistence inside the block ran into.
Reraised(e, save_error) == e

\* What the persistence of the diagnostics ran into and printed, if
\* anything: save_metadata failed, or the error log could not be written
\* or uploaded.
PersistenceError(saved, uploaded, bucket) ==
    IF ~saved THEN <<"Failed to save error metadata: ">>
    ELSE IF bucket # None /\ ~uploaded
    THEN <<"Failed to upload error log to S3: ">>
    ELSE <<>>

\* except BuildStageError: save the failure metadata and, with a bucket,
\* upload the error log; a failure of either is only printed; then re-raise.
BuildHandleFailure ==
    /\ b_pc = "except"
    /\ \E saved \in BOOLEAN, logged \in BOOLEAN, uploaded \in BOOLEAN :
        /\ uploaded => logged
        /\ logged => saved /\ s3_bucket # None
        /\ b_exc' = Reraised(b_exc, PersistenceError(saved, uploaded, s3_bucket))
        /\ metadata_json' = IF saved THEN ArtifactMetadata("failed", b_exc)
                            ELSE metadata_json
        /\ artifacts_files' = artifacts_files
                \cup (IF saved THEN {<<"metadata.json">>} ELSE {})
                \cup (IF logged THEN {<<"error.log">>} ELSE {})
        /\ s3_objects' = IF uploaded
                         THEN s3_objects \cup {S3Key(commit_sha, <<"error.log">>)}
                         ELSE s3_objects
    /\ b_pc' = "raised"
    /\ UNCHANGED <<build_commands, s3_bucket, b_i, b_calls, b_ret,
                   workspace_file>>
    /\ UNCHANGED <<deployVars, testVars, pipelineVars, commit_sha, auxVars>>

BuildNext ==
    \/ BuildCloneRepository
    \/ ExecuteBuildCommand
    \/ PackageArtifacts
    \/ UploadArtifacts
    \/ SaveMetadataAndReturn
    \/ BuildHandleFailure

BuildSpec == BuildInit /\ [][BuildNext]_vars

\* ------------------------------------------------------------ build: claims

Runs == SelectOp(b_calls, "run")

\* C10: the commands handed to the shell are a prefix of build.commands, in
\* order; only the last of them can have exited nonzero; a nonzero exit ends
\* the loop and fails the stage (BuildStageError), with no effect of any
\* later command in the workspace; and the stage gets past the commands only
\* when every command ran and exited zero.
C10_BuildStopsAtFirstFailure ==
    /\ Len(Runs) <= Len(build_commands)
    /\ \A k \in 1..Len(Runs) :
            /\ Runs[k].pos = k
            /\ Runs[k].command = build_commands[k]
    /\ \A k \in 1..Len(Runs) - 1 : Runs[k].exit_code = 0
    /\ \A k \in 1..Len(Runs) :
            Runs[k].exit_code # 0 =>
                /\ b_pc \in {"except", "raised"}
                /\ b_ret = NoneDict
                /\ \A j \in k + 1..Len(build_commands) :
                        build_commands[j] \notin Range(workspace_file)
    /\ b_pc \in {"package", "upload", "metadata", "returned"} =>
            /\ Len(Runs) = Len(build_commands)
            /\ \A k \in 1..Len(Runs) : Runs[k].exit_code = 0
            /\ workspace_file = build_commands

\* [ok, fail, ok3]: the second of three commands exited nonzero and the stage
\* has raised.
C10_Witness ==
    /\ b_pc = "raised"
    /\ Len(build_commands) = 3
    /\ Len(Runs) = 2
    /\ Runs[1].exit_code = 0
    /\ Runs[2].exit_code # 0

\* ------------------------------------------------------- environment test
\* Inputs of TestExecutionStage.__init__ and what the shell may answer.

\* subprocess.run(..., timeout=3600)
TestTimeout == 3600

\* What a TimeoutExpired carries as the output captured so far: nothing,
\* bytes that are UTF-8, or bytes that are not (another encoding, or a
\* character cut in two by the kill).
TimeoutOutputs == {"none", "utf8", "undecodable"}

\* What subprocess.run may do with a test command: run it to an exit code
\* within so many seconds, give up on it after the timeout, or fail to start
\* it at all.
RunOutcomes ==
    [kind : {"completed"}, returncode : ExitCodes, seconds : {1, 2},
     output : {"utf8"}]
        \cup [kind : {"timeout"}, returncode : {0}, seconds : {TestTimeout},
              output : TimeoutOutputs]
        \cup [kind : {"oserror"}, returncode : {0}, seconds : {0},
              output : {"none"}]

\* __init__, for every input explored.
TestInit ==
    /\ commit_sha \in CommitShas
    /\ test_commands \in CommandLists
    /\ environment_name = "dev"
    /\ test_results = <<>>
    /\ t_pc = "execute"
    /\ t_i = 0
    /\ t_results = <<>>
    /\ t_calls = <<>>
    /\ t_exc = <<>>
    /\ t_ret = NoneDict
    /\ test_results_json = NoneDict
    /\ test_logs = 0
    /\ DeployIdle
    /\ BuildIdle
    /\ PipelineIdle
    /\ AuxIdle

\* status = "passed" if result.returncode == 0 else "failed"
CommandStatus(returncode) == IF returncode = 0 THEN "passed" ELSE "failed"

\* e.stdout.decode() if e.stdout else "": whether the handler of
\* TimeoutExpired gets through this expression. bytes.decode() is strict
\* UTF-8 and the handler's siblings do not catch what it raises.
Decodes(output) == output # "undecodable"

\* The TestCommandResult execute_test_command returns for an outcome it
\* handles.
TestCommandResult(command, outcome) ==
    CASE outcome.kind = "completed" ->
            [command |-> command, exit_code |-> outcome.returncode,
             stdout |-> "out", stderr |-> <<>>,
             status |-> CommandStatus(outcome.returncode),
             duration_seconds |-> outcome.seconds]
      [] outcome.kind = "timeout" ->
            [command |-> command, exit_code |-> -1,
             stdout |-> IF outcome.output = "none" THEN "" ELSE "out",
             stderr |-> <<"Test command timed out after ", outcome.seconds,
                          " seconds">>,
             status |-> "failed",
             duration_seconds |-> outcome.seconds]
      [] outcome.kind = "oserror" ->
            [command |-> command, exit_code |-> -1,
             stdout |-> "",
             stderr |-> <<"Failed to execute test command: ", "OSError">>,
             status |-> "failed",
             duration_seconds |-> outcome.seconds]

\* for i, command in enumerate(self.test_commands, 1): is there a command
\* after the i-th?
MoreTests(i, commands) == i < Len(commands)

\* Step 1: execute_all_tests. Without commands it returns [] at once;
\* otherwise this is one iteration of its loop, execute_test_command
\* included, and after the last command the list is returned and assigned to
\* self.test_results. An exception that escapes execute_test_command
\* abandons the loop and the local list, and run() turns it into a
\* TestExecutionError.
ExecuteTestCommand ==
    /\ t_pc = "execute"
    /\ IF ~MoreTests(t_i, test_commands)
       THEN /\ test_results' = <<>>
            /\ t_pc' = "save"
            /\ UNCHANGED <<t_i, t_results, t_calls, t_exc>>
       ELSE \E outcome \in RunOutcomes :
            LET command == test_commands[t_i + 1]
                result == TestCommandResult(command, outcome)
            IN  /\ t_calls' = Append(t_calls, [op |-> "run", pos |-> t_i + 1,
                                               command |-> command,
                                               outcome |-> outcome])
                /\ IF outcome.kind = "timeout" /\ ~Decodes(outcome.output)
                   THEN /\ t_exc' = <<"Unexpected error during test execution: ",
                                      "UnicodeDecodeError">>
                        /\ t_pc' = "raised"
                        /\ t_results' = <<>>
                        /\ UNCHANGED <<t_i, test_results>>
                   ELSE /\ t_i' = t_i + 1
                        /\ t_results' = Append(t_results, result)
                        /\ t_exc' = t_exc
                        /\ IF MoreTests(t_i + 1, test_commands)
                           THEN UNCHANGED <<t_pc, test_results>>
                           ELSE /\ test_results' = Append(t_results, result)
                                /\ t_pc' = "save"
    /\ UNCHANGED <<test_commands, environment_name, t_ret, test_results_json,
                   test_logs>>
    /\ UNCHANGED <<deployVars, buildVars, pipelineVars, commit_sha, auxVars>>

\* An overall status that looks at nothing.
OverallAlwaysPassed(rs) == "passed"

\* save_test_results: overall_status = "passed", then "failed" as soon as a
\* result's status is "failed".
OverallStatus(rs) ==
    IF \E k \in 1..Len(rs) : rs[k].status = "failed" THEN "failed" ELSE "passed"

\* total_duration += result.duration_seconds, from 0.0
RECURSIVE TotalDuration(_)
TotalDuration(rs) ==
    IF rs = <<>> THEN 0 ELSE Head(rs).duration_seconds + TotalDuration(Tail(rs))

\* The TestExecutionResult save_test_results and run() build.
TestExecutionResult(rs, overall_status) ==
    [environment_name |-> environment_name, commit_sha |-> commit_sha,
     test_results |-> rs, overall_status |-> overall_status,
     total_duration_seconds |-> TotalDuration(rs)]

\* Step 2: save_test_results. The document is written whole or, when the
\* file cannot be written, not at all, and then TestExecutionError is raised.
SaveTestResults ==
    /\ t_pc = "save"
    /\ \E written \in BOOLEAN :
        IF written
        THEN /\ test_results_json' =
                    TestExecutionResult(test_results, OverallStatus(test_results))
             /\ t_pc' = "logs"
             /\ t_exc' = t_exc
        ELSE /\ t_exc' = <<"Failed to save test results: ", "OSError">>
             /\ t_pc' = "raised"
             /\ UNCHANGED test_results_json
    /\ UNCHANGED <<test_commands, environment_name, test_results, t_i,
                   t_results, t_calls, t_ret, test_logs>>
    /\ UNCHANGED <<deployVars, buildVars, pipelineVars, commit_sha, auxVars>>

\* failed_tests = [r for r in self.test_results if r.status == "failed"]
FailedTests(rs) == {k \in 1..Len(rs) : rs[k].status = "failed"}

\* Steps 3 to 5: save_test_logs (a failure is only printed, and may leave
\* the first few logs behind), print_summary, and the end of run(): raise
\* when a test failed, return the passed result otherwise.
SaveLogsAndFinish ==
    /\ t_pc = "logs"
    /\ \E n \in 0..Len(test_results) : test_logs' = n
    /\ IF FailedTests(test_results) # {}
       THEN /\ t_exc' = <<Cardinality(FailedTests(test_results)),
                          " test(s) failed">>
            /\ t_pc' = "raised"
            /\ t_ret' = t_ret
       ELSE /\ t_ret' = TestExecutionResult(test_results, "passed")
            /\ t_pc' = "returned"
            /\ t_exc' = t_exc
    /\ UNCHANGED <<test_commands, environment_name, test_results, t_i,
                   t_results, t_calls, test_results_json>>
    /\ UNCHANGED <<deployVars, buildVars, pipelineVars, commit_sha, auxVars>>

TestNext ==
    \/ ExecuteTestCommand
    \/ SaveTestResults
    \/ SaveLogsAndFinish

TestSpec == TestInit /\ [][TestNext]_vars

\* ------------------------------------------------- environment test: claims

TestRuns == SelectOp(t_calls, "run")

\* execute_all_tests is over: it returned or an exception left it.
TestExecutionOver == t_pc \in {"save", "logs", "returned", "raised"}

TestFinished == t_pc \in {"returned", "raised"}

\* The command did not end with exit code zero: it exited nonzero, timed
\* out or could not be started.
EndedNonzero(outcome) == ~(outcome.kind = "completed" /\ outcome.returncode = 0)

\* C11: every command of env.tests.commands is executed, in listed order,
\* whatever earlier commands did; once execution is over the results list
\* has exactly one entry per command, in command order, each with that
\* command's own exit code and status.
C11_EveryTestCommandExecuted ==
    /\ \A k \in 1..Len(TestRuns) :
            /\ TestRuns[k].pos = k
            /\ TestRuns[k].command = test_commands[k]
    /\ TestExecutionOver =>
            /\ Len(TestRuns) = Len(test_commands)
            /\ Len(test_results) = Len(test_commands)
            /\ \A k \in 1..Len(test_results) :
                    /\ test_results[k].command = test_commands[k]
                    /\ TestRuns[k].outcome.kind = "completed" =>
                            test_results[k].exit_code = TestRuns[k].outcome.returncode
                    /\ test_results[k].status =
                            (IF EndedNonzero(TestRuns[k].outcome)
                             THEN "failed" ELSE "passed")

\* C12 as claimed: the persisted document's overall_status is failed if and
\* only if some command ended with a nonzero exit code, and so is the outcome
\* of run: it fails if and only if some command ended with a nonzero exit
\* code.
C12_FailedIffNonzeroExit ==
    /\ test_results_json # NoneDict =>
            (test_results_json.overall_status = "failed"
                <=> \E k \in 1..Len(TestRuns) : EndedNonzero(TestRuns[k].outcome))
    /\ TestFinished =>
            (t_pc = "raised"
                <=> \E k \in 1..Len(TestRuns) : EndedNonzero(TestRuns[k].outcome))

\* C12 as amended: a persisted document holds the results of all commands
\* and its overall_status is failed if and only if one of them has a nonzero
\* exit code, passed otherwise; run returns, with overall_status passed,
\* only after persisting a passed document, every command having exited
\* zero; run fails when a command ended nonzero, and also, without any
\* nonzero exit code on record, when the document could not be written or
\* an exception left the execution, and then there is no document.
C12_FailedIffNonzeroWhenSaved ==
    /\ test_results_json # NoneDict =>
            /\ test_results_json.test_results = test_results
            /\ Len(test_results) = Len(test_commands)
            /\ test_results_json.overall_status \in {"passed", "failed"}
            /\ test_results_json.overall_status = "failed"
                    <=> \E k \in 1..Len(test_results) :
                            test_results[k].exit_code # 0
            /\ \A k \in 1..Len(test_results) :
                    test_results[k].exit_code # 0
                        <=> EndedNonzero(TestRuns[k].outcome)
    /\ t_pc = "returned" =>
            /\ t_ret.overall_status = "passed"
            /\ test_results_json # NoneDict
            /\ test_results_json.overall_status = "passed"
            /\ \A k \in 1..Len(TestRuns) : ~EndedNonzero(TestRuns[k].outcome)
    /\ t_pc = "raised" /\ test_results_json # NoneDict =>
            /\ test_results_json.overall_status = "failed"
            /\ \E k \in 1..Len(TestRuns) : EndedNonzero(TestRuns[k].outcome)
    /\ t_pc = "raised" /\ test_results_json = NoneDict =>
            t_exc \in {<<"Failed to save test results: ", "OSError">>,
                       <<"Unexpected error during test execution: ",
                         "UnicodeDecodeError">>}
    /\ TestFinished /\ (\E k \in 1..Len(TestRuns) : EndedNonzero(TestRuns[k].outcome))
            => t_pc = "raised"

\* [ok, fail, ok3]: the document says failed and run has raised.
C12_Witness ==
    /\ t_pc = "raised"
    /\ Len(test_commands) = 3
    /\ test_results_json # NoneDict
    /\ test_results_json.overall_status = "failed"
    /\ test_results[1].exit_code = 0
    /\ test_results[2].exit_code = 1
    /\ test_results[3].exit_code = 0

\* C13: a command that exceeds its timeout, or cannot be started, is
\* recorded as a result with status failed and a synthetic nonzero exit
\* code, and the commands after it are still executed.
C13_TimeoutRecordedRunContinues ==
    \A k \in 1..Len(TestRuns) :
        TestRuns[k].outcome.kind \in {"timeout", "oserror"} =>
            /\ Len(t_results) >= k
            /\ t_results[k].command = test_commands[k]
            /\ t_results[k].status = "failed"
            /\ t_results[k].exit_code # 0
            /\ TestExecutionOver => Len(TestRuns) = Len(test_commands)

\* ------------------------------------------- build or environment test
\* One stage that runs a command list, of either kind.

CommandStagesInit ==
    \/ BuildInit
    \/ TestInit

CommandStagesNext ==
    \/ BuildNext
    \/ TestNext

CommandStagesSpec == CommandStagesInit /\ [][CommandStagesNext]_vars

BuildFinished == b_pc \in {"returned", "raised"}

\* The Build stage's steps other than the commands went through: the
\* checkout and, with a bucket, the upload.
BuildOtherStepsSucceeded ==
    /\ \E k \in 1..Len(b_calls) : b_calls[k].op = "clone" /\ b_calls[k].ok
    /\ \A k \in 1..Len(b_calls) : b_calls[k].op = "upload" => b_calls[k].ok

MaxEnvs == 3

\* Most invocations of the script with --generate-only explored.
MaxGenerateOnly == 1

\* Environment names, unique within a configuration.
EnvironmentNames == <<"dev", "staging", "prod", "canary", "dr">>

\* config.environments by name: the list order is the stage order and need
\* not be the order of the names.
EnvNameLists ==
    UNION {{[k \in 1..n |-> EnvironmentNames[k]],
            [k \in 1..n |-> EnvironmentNames[n + 1 - k]]} : n \in 0..MaxEnvs}

\* env.tests: absent, declared without commands, declared with a command.
TestConfigs == {NoneDict, [commands |-> <<>>], [commands |-> <<"npm test">>]}

\* EnvironmentConfig
EnvironmentConfig(name, tests) ==
    [name |-> name,
     region |-> "us-east-1",
     account |-> IF name = "dev" THEN "111111111111" ELSE "222222222222",
     stacks |-> <<[name |-> "AppStack", path |-> "."]>>,
     tests |-> tests]

\* The configurations aphex-config.yaml may hold once it passed the schema.
ConfigFiles ==
    UNION {{[version |-> "1.0",
             build |-> [commands |-> commands],
             environments |->
                [k \in 1..Len(names) |-> EnvironmentConfig(names[k], tests[k])]] :
                commands \in {<<>>, <<"npm run build">>},
                tests \in [1..Len(names) -> TestConfigs]} :
           names \in EnvNameLists}

\* The ArtifactBucketName output of AphexPipelineStack.
ArtifactBuckets == {"artifacts-a", "artifacts-b"}

\* __init__, for every input explored; the cluster holds the template some
\* earlier run applied.
PipelineInit ==
    /\ commit_sha = "sha1"
    /\ config_file \in ConfigFiles \cup {NoneDict}
    /\ continue_on_error \in BOOLEAN
    /\ config = NoneDict
    /\ p_pc = "clone"
    /\ p_calls = <<>>
    /\ p_exc = <<>>
    /\ template_yaml = NoneDict
    /\ template_file = NoneDict
    /\ applied_template = [previous |-> TRUE]
    /\ generated = <<>>
    /\ DeployIdle
    /\ BuildIdle
    /\ TestIdle
    /\ AuxIdle

\* raise PipelineDeploymentError(msg); run()'s except block prints and
\* re-raises it.
PipelineRaise(msg) ==
    /\ p_exc' = msg
    /\ p_pc' = "raised"

\* Step 1: clone_repository: git clone, git checkout, git rev-parse HEAD.
PipelineCloneRepository ==
    /\ p_pc = "clone"
    /\ \E git \in GitOutcomes :
        /\ p_calls' = Append(p_calls, CloneCall(git, commit_sha))
        /\ IF CheckedOut(git, commit_sha)
           THEN p_pc' = "synth" /\ p_exc' = p_exc
           ELSE PipelineRaise(CloneErrorMessage(git, commit_sha))
    /\ UNCHANGED <<config_file, continue_on_error, config, template_yaml,
                   template_file, applied_template, generated>>
    /\ UNCHANGED <<deployVars, buildVars, testVars, commit_sha, auxVars>>

\* A stage for which every failure is fatal.
NeverSwallows(flag) == FALSE

\* except PipelineDeploymentError as e: if continue_on_error: (warning)
\* else: raise
Swallows(flag) == flag

\* Step 2: synthesize_pipeline_stack, inside its own try block.
SynthesizePipelineStack ==
    /\ p_pc = "synth"
    /\ \E ok \in BOOLEAN :
        /\ p_calls' = Append(p_calls, [op |-> "synth", ok |-> ok])
        /\ IF ok \/ Swallows(continue_on_error)
           THEN p_pc' = "deploy" /\ p_exc' = p_exc
           ELSE PipelineRaise(<<"CDK synthesis failed">>)
    /\ UNCHANGED <<config_file, continue_on_error, config, template_yaml,
                   template_file, applied_template, generated>>
    /\ UNCHANGED <<deployVars, buildVars, testVars, commit_sha, auxVars>>

\* Step 3: deploy_pipeline_stack, inside its own try block.
DeployPipelineStack ==
    /\ p_pc = "deploy"
    /\ \E ok \in BOOLEAN :
        /\ p_calls' = Append(p_calls, [op |-> "deploy", ok |-> ok])
        /\ IF ok \/ Swallows(continue_on_error)
           THEN p_pc' = "read" /\ p_exc' = p_exc
           ELSE PipelineRaise(<<"CDK deployment failed">>)
    /\ UNCHANGED <<config_file, continue_on_error, config, template_yaml,
                   template_file, applied_template, generated>>
    /\ UNCHANGED <<deployVars, buildVars, testVars, commit_sha, auxVars>>

\* ConfigParser._parse_config: the AphexConfig built from the validated
\* data, field by field.
ParseConfig(config_data) ==
    [version |-> config_data.version,
     build |-> [commands |-> config_data.build.commands],
     environments |->
        [k \in 1..Len(config_data.environments) |->
            LET env_data == config_data.environments[k]
            IN  [name |-> env_data.name,
                 region |-> env_data.region,
                 account |-> env_data.account,
                 stacks |-> [j \in 1..Len(env_data.stacks) |->
                                [name |-> env_data.stacks[j].name,
                                 path |-> env_data.stacks[j].path]],
                 tests |-> IF env_data.tests = NoneDict THEN NoneDict
                           ELSE [commands |-> env_data.tests.commands]]]]

\* Step 4: read_configuration. A missing file, a missing schema or a
\* document the schema rejects raises.
ReadConfiguration ==
    /\ p_pc = "read"
    /\ IF config_file = NoneDict
       THEN /\ p_calls' = Append(p_calls, [op |-> "read_configuration", ok |-> FALSE])
            /\ PipelineRaise(<<"Failed to read configuration: ">>)
            /\ UNCHANGED config
       ELSE /\ p_calls' = Append(p_calls, [op |-> "read_configuration", ok |-> TRUE])
            /\ config' = ParseConfig(config_file)
            /\ p_pc' = "generate"
            /\ p_exc' = p_exc
    /\ UNCHANGED <<config_file, continue_on_error, template_yaml,
                   template_file, applied_template, generated>>
    /\ UNCHANGED <<deployVars, buildVars, testVars, commit_sha, auxVars>>

\* "{{workflow.parameters.<name>}}"
WorkflowParameter(name) == <<"{{workflow.parameters.", name, "}}">>

\* "{{steps.<step>.outputs.parameters.<name>}}", the step's name in parts.
StepOutput(step, name) ==
    <<"{{steps.">> \o step \o <<".outputs.parameters.", name, "}}">>

\* The two parameters every node is given: the run's revision.
RevisionArguments ==
    <<[name |-> "commit-sha", value |-> WorkflowParameter("commit-sha")],
      [name |-> "repo-url", value |-> WorkflowParameter("repo-url")]>>

\* _generate_build_stage: the commands joined into the script, the
\* artifact-path output, the revision arguments.
GenerateBuildStage(cfg, artifact_bucket) ==
    [name |-> <<"build">>,
     inputs |-> <<"commit-sha", "repo-url">>,
     outputs |-> <<[name |-> "artifact-path",
                    value |-> <<"s3://", artifact_bucket,
                                "/{{inputs.parameters.commit-sha}}/">>]>>,
     image |-> "aphex-pipeline/builder:latest",
     script |-> cfg.build.commands,
     env |-> <<[name |-> "ARTIFACT_BUCKET", value |-> artifact_bucket]>>,
     arguments |-> RevisionArguments]

\* _generate_pipeline_deployment_stage
GeneratePipelineDeploymentStage ==
    [name |-> <<"pipeline-deployment">>,
     inputs |-> <<"commit-sha", "repo-url">>,
     outputs |-> <<>>,
     image |-> "aphex-pipeline/deployer:latest",
     script |-> <<"synth", "deploy", "--generate-only", "kubectl apply">>,
     env |-> <<>>,
     arguments |-> RevisionArguments]

\* One statement of a container's bash script, as its words: the command,
\* then '>' and the file its output is redirected to (to, <<>> for none),
\* then '|| echo' when the script has it (fallback).
Sh(cmd, to, fallback) ==
    cmd \o (IF to = <<>> THEN <<>> ELSE <<">">> \o to)
        \o (IF fallback THEN <<"||", "echo">> ELSE <<>>)

\* Where a word first stands in a statement; past its end if nowhere.
WordAt(stmt, word) ==
    IF \E k \in 1..Len(stmt) : stmt[k] = word
    THEN CHOOSE k \in 1..Len(stmt) :
            stmt[k] = word /\ \A j \in 1..(k - 1) : stmt[j] # word
    ELSE Len(stmt) + 1

\* The command of a statement: its words up to a redirection or a '||'.
Command(stmt) ==
    LET r == WordAt(stmt, ">")
        f == WordAt(stmt, "||")
    IN  SubSeq(stmt, 1, (IF r < f THEN r ELSE f) - 1)

\* The file a statement redirects its output to; <<>> if it does not.
Redirect(stmt) == SubSeq(stmt, WordAt(stmt, ">") + 1, WordAt(stmt, "||") - 1)

\* The statement ends in '|| ...': its failure is not the script's.
Fallback(stmt) == WordAt(stmt, "||") <= Len(stmt)

\* The statements _generate_environment_stage emits for one stack: synth,
\* deploy, then describe-stacks --query 'Stacks[0].Outputs' into
\* /tmp/<stack>-outputs.json, or an echo when that fails.
StackDeploymentScript(env, stack) ==
    <<Sh(<<"npx cdk synth", stack.name>>, <<>>, FALSE),
      Sh(<<"npx cdk deploy", stack.name>>, <<>>, FALSE),
      Sh(<<"aws cloudformation describe-stacks", stack.name, env.region>>,
         <<"/tmp/", stack.name, "-outputs.json">>, TRUE)>>

\* stack_deployment_script: the statements of the stacks, in env.stacks order.
RECURSIVE StackDeploymentScripts(_, _)
StackDeploymentScripts(env, stacks) ==
    IF stacks = <<>> THEN <<>>
    ELSE StackDeploymentScript(env, Head(stacks))
            \o StackDeploymentScripts(env, Tail(stacks))

\* The bash script of a deploy-<env> node, shortened by the statements that
\* write nothing and are taken to exit zero (echo of progress, cd, mkdir,
\* export): set -e, clone, checkout, the artifact sync, npm install, the
\* stacks, and the consolidation, which writes "[]".
EnvironmentStageScript(env) ==
    <<Sh(<<"set -e">>, <<>>, FALSE),
      Sh(<<"git clone {{inputs.parameters.repo-url}}">>, <<>>, FALSE),
      Sh(<<"git checkout {{inputs.parameters.commit-sha}}">>, <<>>, FALSE),
      Sh(<<"aws s3 sync {{inputs.parameters.artifact-path}}">>, <<>>, TRUE),
      Sh(<<"npm install">>, <<>>, FALSE)>>
        \o StackDeploymentScripts(env, env.stacks)
        \o <<Sh(<<"echo", "[]">>, <<"/tmp/stack-outputs.json">>, FALSE)>>

\* test_commands = "\n".join(env.tests.commands): one statement a command.
TestCommandStatements(commands) ==
    [k \in 1..Len(commands) |-> Sh(<<commands[k]>>, <<>>, FALSE)]

\* The bash script of a test-<env> node, shortened in the same way: set -e,
\* clone, checkout, npm install, the test commands.
TestStageScript(env) ==
    <<Sh(<<"set -e">>, <<>>, FALSE),
      Sh(<<"git clone {{inputs.parameters.repo-url}}">>, <<>>, FALSE),
      Sh(<<"git checkout {{inputs.parameters.commit-sha}}">>, <<>>, FALSE),
      Sh(<<"npm install">>, <<>>, FALSE)>>
        \o TestCommandStatements(env.tests.commands)

\* _generate_environment_stage: name, parameters, the script and the
\* environment's region and account.
GenerateEnvironmentStage(env, artifact_bucket) ==
    [name |-> <<"deploy-", env.name>>,
     inputs |-> <<"commit-sha", "repo-url", "artifact-path">>,
     outputs |-> <<[name |-> "stack-outputs",
                    value |-> <<"/tmp/stack-outputs.json">>]>>,
     image |-> "aphex-pipeline/deployer:latest",
     script |-> EnvironmentStageScript(env),
     env |-> <<[name |-> "AWS_REGION", value |-> env.region],
               [name |-> "AWS_ACCOUNT", value |-> env.account]>>]

\* _generate_test_stage
GenerateTestStage(env) ==
    [name |-> <<"test-", env.name>>,
     inputs |-> <<"commit-sha", "repo-url", "stack-outputs">>,
     outputs |-> <<>>,
     image |-> "aphex-pipeline/deployer:latest",
     script |-> TestStageScript(env),
     env |-> <<[name |-> "AWS_REGION", value |-> env.region],
               [name |-> "STACK_OUTPUTS",
                value |-> "{{inputs.parameters.stack-outputs}}"]>>]

\* A generator that wants test commands, not just a tests section.
HasTestCommands(env) == env.tests # NoneDict /\ env.tests.commands # <<>>

\* if env.tests: a TestConfig is an object without __bool__ or __len__,
\* so it is true whatever its commands.
HasTests(env) == env.tests # NoneDict

\* The templates of the environments, in configuration order:
\* env_stages.append(deploy); if env.tests: env_stages.append(test)
RECURSIVE EnvStages(_, _)
EnvStages(envs, artifact_bucket) ==
    IF envs = <<>> THEN <<>>
    ELSE <<GenerateEnvironmentStage(Head(envs), artifact_bucket)>>
            \o (IF HasTests(Head(envs)) THEN <<GenerateTestStage(Head(envs))>>
                ELSE <<>>)
            \o EnvStages(Tail(envs), artifact_bucket)

\* env_step: the deploy node of an environment and its bindings.
EnvStep(env) ==
    [name |-> <<"deploy-", env.name>>,
     template |-> <<"deploy-", env.name>>,
     arguments |-> RevisionArguments \o
        <<[name |-> "artifact-path",
           value |-> StepOutput(<<"build">>, "artifact-path")]>>]

\* A test node bound to the outputs of the first environment's deploy node.
TestStepOfFirstEnvironment(env) ==
    [name |-> <<"test-", env.name>>,
     template |-> <<"test-", env.name>>,
     arguments |-> RevisionArguments \o
        <<[name |-> "stack-outputs",
           value |-> StepOutput(<<"deploy-", config_file.environments[1].name>>,
                                "stack-outputs")]>>]

\* test_step: the test node of an environment and its bindings.
TestStep(env) ==
    [name |-> <<"test-", env.name>>,
     template |-> <<"test-", env.name>>,
     arguments |-> RevisionArguments \o
        <<[name |-> "stack-outputs",
           value |-> StepOutput(<<"deploy-", env.name>>, "stack-outputs")]>>]

\* An environment whose deploy and test nodes share one step group.
OneGroupPerEnvironment(env) ==
    IF HasTests(env) THEN <<<<EnvStep(env), TestStep(env)>>>>
    ELSE <<<<EnvStep(env)>>>>

\* steps.append([env_step]); if env.tests: steps.append([test_step])
EnvStepGroups(env) ==
    <<<<EnvStep(env)>>>> \o (IF HasTests(env) THEN <<<<TestStep(env)>>>> ELSE <<>>)

\* The step groups of the environments, in configuration order.
RECURSIVE EnvSteps(_)
EnvSteps(envs) ==
    IF envs = <<>> THEN <<>>
    ELSE EnvStepGroups(Head(envs)) \o EnvSteps(Tail(envs))

\* A template whose name counts the generations made so far.
TemplateStampedWithCount(steps, templates) ==
    [apiVersion |-> "argoproj.io/v1alpha1",
     kind |-> "WorkflowTemplate",
     metadata |-> [name |-> <<"aphex-pipeline-template", Len(generated)>>,
                   namespace |-> "argo"],
     spec |-> [serviceAccountName |-> "workflow-executor",
               entrypoint |-> "main",
               arguments |-> <<"commit-sha", "branch", "repo-url">>,
               templates |-> <<[name |-> <<"main">>, steps |-> steps]>>
                                \o templates]]

\* template = {...}: the manifest around the step groups and the templates.
WorkflowTemplate(steps, templates) ==
    [apiVersion |-> "argoproj.io/v1alpha1",
     kind |-> "WorkflowTemplate",
     metadata |-> [name |-> <<"aphex-pipeline-template">>,
                   namespace |-> "argo"],
     spec |-> [serviceAccountName |-> "workflow-executor",
               entrypoint |-> "main",
               arguments |-> <<"commit-sha", "branch", "repo-url">>,
               templates |-> <<[name |-> <<"main">>, steps |-> steps]>>
                                \o templates]]

\* _build_workflow_template
BuildWorkflowTemplate(cfg, artifact_bucket) ==
    LET build_stage == GenerateBuildStage(cfg, artifact_bucket)
        pipeline_stage == GeneratePipelineDeploymentStage
        env_stages == EnvStages(cfg.environments, artifact_bucket)
        steps ==
            <<<<[name |-> <<"build">>, template |-> <<"build">>,
                 arguments |-> build_stage.arguments]>>,
              <<[name |-> <<"pipeline-deployment">>,
                 template |-> <<"pipeline-deployment">>,
                 arguments |-> pipeline_stage.arguments]>>>>
                \o EnvSteps(cfg.environments)
    IN  WorkflowTemplate(steps, <<build_stage, pipeline_stage>> \o env_stages)

\* yaml.dump(template, default_flow_style=False, sort_keys=False): the
\* document with its keys and lists in the order they were built.
YamlDump(template) == [format |-> "yaml", document |-> template]

\* One entry of the generation history: who generated, from what, what.
Generation(by, cfg, artifact_bucket, yaml) ==
    [by |-> by, config |-> cfg, artifact_bucket |-> artifact_bucket,
     template_yaml |-> yaml]

\* Step 5: generate_workflow_template, with _get_artifact_bucket_name: the
\* bucket is looked up in the stack's outputs; a failed lookup or a missing
\* output raises.
GenerateWorkflowTemplate ==
    /\ p_pc = "generate"
    /\ \/ /\ p_calls' = Append(p_calls, [op |-> "describe_stacks", ok |-> FALSE])
          /\ PipelineRaise(<<"Failed to generate WorkflowTemplate: ">>)
          /\ UNCHANGED <<template_yaml, generated>>
       \/ \E artifact_bucket \in ArtifactBuckets :
          LET yaml == YamlDump(BuildWorkflowTemplate(config, artifact_bucket))
          IN  /\ p_calls' = Append(p_calls, [op |-> "describe_stacks", ok |-> TRUE])
              /\ template_yaml' = yaml
              /\ generated' = Append(generated,
                                     Generation("run", config, artifact_bucket, yaml))
              /\ p_pc' = "apply"
              /\ p_exc' = p_exc
    /\ UNCHANGED <<config_file, continue_on_error, config, template_file,
                   applied_template>>
    /\ UNCHANGED <<deployVars, buildVars, testVars, commit_sha, auxVars>>

\* A kubectl that replaces the cluster's template even when it fails.
KubectlApplyRegardless(outcome, installed, yaml) ==
    IF outcome = "write failed" THEN installed ELSE yaml

\* A kubectl that reports success and leaves the cluster as it was.
KubectlApplyDryRun(outcome, installed, yaml) == installed

\* kubectl apply -f /tmp/workflow-template.yaml: the cluster's template is
\* replaced when the command succeeds and stays as it was otherwise.
KubectlApply(outcome, installed, yaml) ==
    IF outcome = "applied" THEN yaml ELSE installed

\* Step 6: apply_workflow_template: write the file, kubectl apply. The file
\* may not get written; kubectl may fail with the file written.
ApplyWorkflowTemplate ==
    /\ p_pc = "apply"
    /\ \E outcome \in {"write failed", "kubectl failed", "applied"} :
        /\ p_calls' = Append(p_calls, [op |-> "apply", outcome |-> outcome])
        /\ template_file' = IF outcome = "write failed" THEN template_file
                            ELSE template_yaml
        /\ applied_template' = KubectlApply(outcome, applied_template,
                                            template_yaml)
        /\ IF outcome = "applied"
           THEN p_pc' = "returned" /\ p_exc' = p_exc
           ELSE PipelineRaise(<<"Failed to apply WorkflowTemplate: ", outcome>>)
    /\ UNCHANGED <<config_file, continue_on_error, config, template_yaml,
                   generated>>
    /\ UNCHANGED <<deployVars, buildVars, testVars, commit_sha, auxVars>>

\* main() with --generate-only, invoked on the same workspace once run() is
\* over: a stage object of its own reads the configuration, generates the
\* template and writes it to /tmp/workflow-template.yaml. An invocation
\* that fails writes nothing.
GenerateOnly ==
    /\ p_pc \in {"returned", "raised"}
    /\ config_file # NoneDict
    /\ Len(SelectSeq(generated, LAMBDA g : g.by = "generate-only")) < MaxGenerateOnly
    /\ \E artifact_bucket \in ArtifactBuckets :
        LET cfg == ParseConfig(config_file)
            yaml == YamlDump(BuildWorkflowTemplate(cfg, artifact_bucket))
        IN  /\ template_file' = yaml
            /\ generated' = Append(generated,
                                   Generation("generate-only", cfg,
                                              artifact_bucket, yaml))
    /\ UNCHANGED <<config_file, continue_on_error, config, p_pc, p_calls,
                   p_exc, template_yaml, applied_template>>
    /\ UNCHANGED <<deployVars, buildVars, testVars, commit_sha, auxVars>>

PipelineNext ==
    \/ PipelineCloneRepository
    \/ SynthesizePipelineStack
    \/ DeployPipelineStack
    \/ ReadConfiguration
    \/ GenerateWorkflowTemplate
    \/ ApplyWorkflowTemplate
    \/ GenerateOnly

PipelineSpec == PipelineInit /\ [][PipelineNext]_vars

\* ------------------------------------------------ pipeline deployment: claims

PipelineCallsAt(op) == {k \in 1..Len(p_calls) : p_calls[k].op = op}

\* The call did not do what it was asked.
PipelineCallFailed(call) ==
    IF call.op = "apply" THEN call.outcome # "applied" ELSE ~call.ok

\* The synthesis or the deployment of the pipeline's own stack failed.
InfrastructureFailed ==
    \E k \in PipelineCallsAt("synth") \cup PipelineCallsAt("deploy") :
        ~p_calls[k].ok

\* A step other than those two failed: checkout, configuration parsing,
\* topology generation or apply.
OtherStepFailed ==
    \E k \in PipelineCallsAt("clone") \cup PipelineCallsAt("read_configuration")
                \cup PipelineCallsAt("describe_stacks") \cup PipelineCallsAt("apply") :
        PipelineCallFailed(p_calls[k])

\* The documents the Pipeline-Deployment stage has written.
PipelineDocuments ==
    IF template_file = NoneDict THEN {}
    ELSE {[path |-> "/tmp/workflow-template.yaml", content |-> template_file]}

\* A result document that says failed and why.
IsFailedResult(content) ==
    /\ "status" \in DOMAIN content
    /\ "error_message" \in DOMAIN content
    /\ content.status = "failed"
    /\ content.error_message # <<>>

\* C15: a stage of any kind that has failed has produced a result document
\* with status failed and an error message.
C15_FailedStageLeavesResultDocument ==
    /\ b_pc = "raised" => IsFailedResult(metadata_json)
    /\ p_pc = "raised" =>
            \E doc \in PipelineDocuments : IsFailedResult(doc.content)
    /\ Returned /\ ret.status = "failed" => IsFailedResult(ret)
    /\ t_pc = "raised" =>
            /\ test_results_json # NoneDict
            /\ test_results_json.overall_status = "failed"
            /\ "error_message" \in DOMAIN test_results_json

\* C16: with continue_on_error a failed synthesis or deployment of the
\* pipeline's own stack does not fail the stage: the next step is taken, and
\* the stage fails only when checkout, configuration parsing, topology
\* generation or apply fails, and otherwise returns with the topology
\* generated from the parsed configuration applied. Without
\* continue_on_error such a failure fails the stage at once: no
\* configuration is parsed, nothing is generated, nothing applied. A failure
\* of checkout, parsing, generation or apply fails the stage whatever the
\* flag, is its last step, and leaves the applied topology as it was.
C16_InfrastructureFailureNonFatalByFlag ==
    /\ \A k \in PipelineCallsAt("synth") \cup PipelineCallsAt("deploy") :
            ~p_calls[k].ok =>
                IF continue_on_error
                THEN /\ p_pc # "raised" \/ OtherStepFailed
                     /\ k < Len(p_calls) =>
                            p_calls[k + 1].op =
                                (IF p_calls[k].op = "synth" THEN "deploy"
                                 ELSE "read_configuration")
                     /\ k = Len(p_calls) =>
                            p_pc = (IF p_calls[k].op = "synth" THEN "deploy"
                                    ELSE "read")
                ELSE /\ p_pc = "raised"
                     /\ k = Len(p_calls)
                     /\ PipelineCallsAt("read_configuration") = {}
                     /\ PipelineCallsAt("describe_stacks") = {}
                     /\ PipelineCallsAt("apply") = {}
                     /\ applied_template = [previous |-> TRUE]
    /\ \A k \in 1..Len(p_calls) :
            p_calls[k].op \in {"clone", "read_configuration", "describe_stacks",
                               "apply"}
            /\ PipelineCallFailed(p_calls[k]) =>
                /\ p_pc = "raised"
                /\ k = Len(p_calls)
                /\ applied_template = [previous |-> TRUE]
    /\ p_pc = "raised" => InfrastructureFailed \/ OtherStepFailed
    /\ p_pc = "raised" /\ continue_on_error => OtherStepFailed
    /\ p_pc = "returned" =>
            /\ ~OtherStepFailed
            /\ InfrastructureFailed => continue_on_error
            /\ PipelineCallsAt("read_configuration") # {}
            /\ config = ParseConfig(config_file)
            /\ \E artifact_bucket \in ArtifactBuckets :
                    applied_template =
                        YamlDump(BuildWorkflowTemplate(config, artifact_bucket))

\* continue_on_error: synthesis and deployment both failed, and the stage
\* has returned with the regenerated topology applied.
C16_Witness ==
    /\ p_pc = "returned"
    /\ continue_on_error
    /\ \E k \in PipelineCallsAt("synth") : ~p_calls[k].ok
    /\ \E k \in PipelineCallsAt("deploy") : ~p_calls[k].ok
    /\ applied_template = template_yaml
    /\ Len(config.environments) = 2

\* The nodes of a list of step groups, in execution order.
RECURSIVE Nodes(_)
Nodes(groups) == IF groups = <<>> THEN <<>> ELSE Head(groups) \o Nodes(Tail(groups))

\* The step groups of a generated template: the steps of its main template.
StepGroups(yaml) == yaml.document.spec.templates[1].steps

\* The stage templates of a generated template: all but main.
StageTemplates(yaml) == Tail(yaml.document.spec.templates)

\* The nodes a configuration calls for: build, pipeline-deployment, then
\* for each environment in order its deploy node and, if it declares tests,
\* its test node.
RECURSIVE EnvironmentNodeNames(_)
EnvironmentNodeNames(envs) ==
    IF envs = <<>> THEN <<>>
    ELSE <<<<"deploy-", Head(envs).name>>>>
            \o (IF Head(envs).tests # NoneDict
                THEN <<<<"test-", Head(envs).name>>>> ELSE <<>>)
            \o EnvironmentNodeNames(Tail(envs))

ExpectedNodeNames(cfg) ==
    <<<<"build">>, <<"pipeline-deployment">>>> \o EnvironmentNodeNames(cfg.environments)

\* How many names of the list begin with this prefix.
CountWithPrefix(names, prefix) ==
    Cardinality({k \in 1..Len(names) : names[k][1] = prefix})

\* C17: every generated topology is exactly build, pipeline-deployment and
\* then, for each environment in configuration order, deploy-<name>
\* followed at once by test-<name> exactly when the environment declares
\* tests: N deploy nodes and k test nodes, as step nodes and as templates.
C17_TopologyMatchesConfiguration ==
    \A g \in Range(generated) :
        LET nodes == Nodes(StepGroups(g.template_yaml))
            names == [k \in 1..Len(nodes) |-> nodes[k].name]
            stages == StageTemplates(g.template_yaml)
            envs == g.config.environments
        IN  /\ names = ExpectedNodeNames(g.config)
            /\ [k \in 1..Len(stages) |-> stages[k].name] = names
            /\ \A k \in 1..Len(nodes) : nodes[k].template = nodes[k].name
            /\ CountWithPrefix(names, "build") = 1
            /\ CountWithPrefix(names, "pipeline-deployment") = 1
            /\ CountWithPrefix(names, "deploy-") = Len(envs)
            /\ CountWithPrefix(names, "test-") =
                    Cardinality({k \in 1..Len(envs) : envs[k].tests # NoneDict})
            /\ Len(names) = 2 + Len(envs)
                    + Cardinality({k \in 1..Len(envs) : envs[k].tests # NoneDict})

\* Three environments: the first without tests, the second with a tests
\* section that lists no command, the third with a test command.
C17_Witness ==
    \E g \in Range(generated) :
        /\ Len(g.config.environments) = 3
        /\ g.config.environments[1].tests = NoneDict
        /\ g.config.environments[2].tests = [commands |-> <<>>]
        /\ g.config.environments[3].tests = [commands |-> <<"npm test">>]
        /\ Len(StepGroups(g.template_yaml)) = 7

ArgumentValue(node, name) ==
    LET k == CHOOSE k \in 1..Len(node.arguments) : node.arguments[k].name = name
    IN  node.arguments[k].value

ArgumentNames(node) == [k \in 1..Len(node.arguments) |-> node.arguments[k].name]

\* The template of this name declares an output parameter of this name.
DeclaresOutput(stages, stage_name, output) ==
    \E k \in 1..Len(stages) :
        /\ stages[k].name = stage_name
        /\ \E j \in 1..Len(stages[k].outputs) : stages[k].outputs[j].name = output

\* C19: every deploy-<env> node is given the run's commit-sha and repo-url
\* and the artifact-path output of the build node; every test-<env> node is
\* given the same revision and the stack-outputs output of deploy-<env>, the
\* deploy node of its own environment, which precedes it, and of no other.
C19_NodeInputsBoundToRevisionAndProducer ==
    \A g \in Range(generated) :
        LET nodes == Nodes(StepGroups(g.template_yaml))
            stages == StageTemplates(g.template_yaml)
            envs == g.config.environments
        IN  \A k \in 1..Len(nodes), e \in 1..Len(envs) :
                /\ nodes[k].name = <<"deploy-", envs[e].name>> =>
                        /\ ArgumentNames(nodes[k]) =
                                <<"commit-sha", "repo-url", "artifact-path">>
                        /\ ArgumentValue(nodes[k], "commit-sha") =
                                <<"{{workflow.parameters.", "commit-sha", "}}">>
                        /\ ArgumentValue(nodes[k], "repo-url") =
                                <<"{{workflow.parameters.", "repo-url", "}}">>
                        /\ ArgumentValue(nodes[k], "artifact-path") =
                                <<"{{steps.", "build", ".outputs.parameters.",
                                  "artifact-path", "}}">>
                        /\ nodes[1].name = <<"build">>
                        /\ DeclaresOutput(stages, <<"build">>, "artifact-path")
                        /\ stages[k].inputs = ArgumentNames(nodes[k])
                /\ nodes[k].name = <<"test-", envs[e].name>> =>
                        /\ ArgumentNames(nodes[k]) =
                                <<"commit-sha", "repo-url", "stack-outputs">>
                        /\ ArgumentValue(nodes[k], "commit-sha") =
                                <<"{{workflow.parameters.", "commit-sha", "}}">>
                        /\ ArgumentValue(nodes[k], "repo-url") =
                                <<"{{workflow.parameters.", "repo-url", "}}">>
                        /\ ArgumentValue(nodes[k], "stack-outputs") =
                                <<"{{steps.", "deploy-", envs[e].name,
                                  ".outputs.parameters.", "stack-outputs", "}}">>
                        /\ \A f \in 1..Len(envs) :
                                f # e =>
                                    ArgumentValue(nodes[k], "stack-outputs") #
                                        <<"{{steps.", "deploy-", envs[f].name,
                                          ".outputs.parameters.", "stack-outputs",
                                          "}}">>
                        /\ \E j \in 1..k - 1 :
                                nodes[j].name = <<"deploy-", envs[e].name>>
                        /\ DeclaresOutput(stages, <<"deploy-", envs[e].name>>,
                                          "stack-outputs")
                        /\ stages[k].inputs = ArgumentNames(nodes[k])

\* Two environments that both declare tests.
C19_Witness ==
    \E g \in Range(generated) :
        /\ Len(g.config.environments) = 2
        /\ g.config.environments[1].tests # NoneDict
        /\ g.config.environments[2].tests # NoneDict
        /\ Len(Nodes(StepGroups(g.template_yaml))) = 6

\* The position of the node of this name among the step groups, 0 if none.
GroupOf(groups, name) ==
    IF \E k \in 1..Len(groups) : \E j \in 1..Len(groups[k]) : groups[k][j].name = name
    THEN CHOOSE k \in 1..Len(groups) :
            \E j \in 1..Len(groups[k]) : groups[k][j].name = name
    ELSE 0

\* C20: executed group after group, the generated topology runs build
\* first, pipeline-deployment second, every deploy after that, and each
\* environment's test in a later group than that environment's deploy; no
\* group holds more than one node.
C20_StepGroupsAreSequential ==
    \A g \in Range(generated) :
        LET groups == StepGroups(g.template_yaml)
            envs == g.config.environments
        IN  /\ \A k \in 1..Len(groups) : Len(groups[k]) = 1
            /\ GroupOf(groups, <<"build">>) = 1
            /\ GroupOf(groups, <<"pipeline-deployment">>) = 2
            /\ \A e \in 1..Len(envs) :
                    /\ GroupOf(groups, <<"deploy-", envs[e].name>>) > 2
                    /\ envs[e].tests # NoneDict =>
                            GroupOf(groups, <<"test-", envs[e].name>>)
                                = GroupOf(groups, <<"deploy-", envs[e].name>>) + 1
                    /\ envs[e].tests = NoneDict =>
                            GroupOf(groups, <<"test-", envs[e].name>>) = 0
                    /\ \A f \in 1..Len(envs) :
                            e < f =>
                                GroupOf(groups, <<"deploy-", envs[e].name>>)
                                    < GroupOf(groups, <<"deploy-", envs[f].name>>)

\* Three environments, only the middle one with tests: five groups before
\* the last deploy.
C20_Witness ==
    \E g \in Range(generated) :
        /\ Len(g.config.environments) = 3
        /\ g.config.environments[1].tests = NoneDict
        /\ g.config.environments[2].tests # NoneDict
        /\ g.config.environments[3].tests = NoneDict
        /\ GroupOf(StepGroups(g.template_yaml),
                   <<"deploy-", g.config.environments[3].name>>) = 6

\* ---------------------------------------------------------- artifact store
\* One bucket shared by every run: BuildStage instances for different
\* commits upload to it, an EnvironmentDeploymentStage downloads from it.

\* How many uploads to the bucket are explored.
MaxUploads == 2

\* The bucket given to the Build stage and named in the artifact path.
ArtifactBucket == "bucket"

\* Files a build can leave in its artifacts directory: relative path and
\* content.
ArtifactFiles == [path : {<<"app.zip">>, <<"lib.zip">>}, body : {"v1", "v2"}]

\* The content of an artifacts directory: no two files of the same path.
ArtifactDirs ==
    {d \in SUBSET ArtifactFiles : \A f, g \in d : f.path = g.path => f = g}

\* The model's own bookkeeping: how many uploads have been made.
Uploads == IF last_upload = NoneDict THEN 0 ELSE last_upload.n

\* All stage objects idle; only the bucket is looked at.
ArtifactStoreInit ==
    /\ commit_sha = "sha1"
    /\ DeployIdle
    /\ BuildIdle
    /\ TestIdle
    /\ PipelineIdle
    /\ AuxIdle

\* s3_client.upload_file(file, bucket, key): the object of that key is
\* replaced.
PutObject(objects, key, body, sha) ==
    {o \in objects : o.key # key} \cup {[key |-> key, body |-> body, commit |-> sha]}

RECURSIVE PutObjects(_, _, _)
PutObjects(objects, files, sha) ==
    IF files = {} THEN objects
    ELSE LET f == CHOOSE f \in files : TRUE
         IN  PutObjects(PutObject(objects, S3Key(sha, f.path), f.body, sha),
                        files \ {f}, sha)

\* return f"s3://{bucket_name}/{s3_prefix}" with s3_prefix = f"{commit_sha}/"
S3Path(bucket_name, sha) == <<"s3://", bucket_name, "/", sha, "/">>

\* BuildStage(commit_sha = sha).upload_artifacts_to_s3(bucket): every file of
\* the artifacts directory is uploaded under the commit's prefix; a
\* ClientError stops the loop with some files stored.
UploadArtifactsToS3 ==
    /\ Uploads < MaxUploads
    /\ \E sha \in CommitShas, dir \in ArtifactDirs : \E stored \in SUBSET dir :
        /\ store' = PutObjects(store, stored, sha)
        /\ last_upload' = [n |-> Uploads + 1, commit |-> sha, files |-> dir,
                           stored |-> stored, ok |-> stored = dir,
                           s3_path |-> IF stored = dir
                                       THEN S3Path(ArtifactBucket, sha)
                                       ELSE <<>>]
    /\ UNCHANGED fetched
    /\ UNCHANGED <<stageVars, engineVars, monitoringVars, nodeVars, validationVars>>

\* BuildStage(commit_sha = sha).upload_error_logs_to_s3(bucket, message):
\* error.log goes under the commit's prefix; a failure is only printed.
UploadErrorLogsToS3 ==
    /\ Uploads < MaxUploads
    /\ \E sha \in CommitShas, uploaded \in BOOLEAN :
        LET log == [path |-> <<"error.log">>, body |-> "error"]
            stored == IF uploaded THEN {log} ELSE {}
        IN  /\ store' = PutObjects(store, stored, sha)
            /\ last_upload' = [n |-> Uploads + 1, commit |-> sha, files |-> {log},
                               stored |-> stored, ok |-> uploaded,
                               s3_path |-> <<>>]
    /\ UNCHANGED fetched
    /\ UNCHANGED <<stageVars, engineVars, monitoringVars, nodeVars, validationVars>>

\* s3_path_parts = self.artifact_path[5:].split('/', 1);
\* prefix = s3_path_parts[1]
S3PrefixOf(path) == SubSeq(path, 4, Len(path))

\* list_objects_v2(Bucket, Prefix): the keys that begin with the prefix.
StartsWith(key, prefix) ==
    /\ Len(prefix) <= Len(key)
    /\ SubSeq(key, 1, Len(prefix)) = prefix

ListObjects(objects, prefix) == {o \in objects : StartsWith(o.key, prefix)}

\* relative_path = s3_key[len(prefix):].lstrip('/')
RelativePath(key, prefix) == SubSeq(key, Len(prefix) + 1, Len(key))

\* EnvironmentDeploymentStage(artifact_path = the path of sha)
\* .download_artifacts_from_s3(): every object listed under the prefix is
\* downloaded to artifacts_dir / relative_path. The bucket as it was at the
\* time of the call is kept with what was brought.
DownloadArtifactsFromS3 ==
    /\ \E sha \in CommitShas :
        LET path == S3Path(ArtifactBucket, sha)
            prefix == S3PrefixOf(path)
        IN  fetched' =
                [artifact_path |-> path,
                 commit |-> sha,
                 bucket |-> store,
                 files |-> {[path |-> RelativePath(o.key, prefix),
                             body |-> o.body, commit |-> o.commit] :
                                o \in ListObjects(store, prefix)}]
    /\ fetched' # fetched
    /\ UNCHANGED <<store, last_upload>>
    /\ UNCHANGED <<stageVars, engineVars, monitoringVars, nodeVars, validationVars>>

ArtifactStoreNext ==
    \/ UploadArtifactsToS3
    \/ UploadErrorLogsToS3
    \/ DownloadArtifactsFromS3

ArtifactStoreSpec == ArtifactStoreInit /\ [][ArtifactStoreNext]_vars

\* ----------------------------------------------------- artifact store: claims

\* C21: every object of the bucket is stored under a key that begins with
\* the commit of the build that uploaded it, followed by "/"; the files the
\* latest upload stored are read back under <commit>/<path> with the content
\* written; and a download of the artifact path of a commit brings exactly
\* the objects that were in the bucket for that commit, with their content,
\* and none uploaded for another commit.
C21_ArtifactsIsolatedByCommit ==
    /\ \A o \in store :
            /\ StartsWith(o.key, <<o.commit, "/">>)
            /\ \A sha \in CommitShas :
                    sha # o.commit => ~StartsWith(o.key, <<sha, "/">>)
    /\ \A o, q \in store : o.key = q.key => o = q
    /\ last_upload # NoneDict =>
            \A f \in last_upload.stored :
                \E o \in store :
                    /\ o.key = <<last_upload.commit, "/">> \o f.path
                    /\ o.body = f.body
                    /\ o.commit = last_upload.commit
    /\ fetched # NoneDict =>
            /\ \A f \in fetched.files :
                    /\ f.commit = fetched.commit
                    /\ \E o \in fetched.bucket :
                            /\ o.key = <<fetched.commit, "/">> \o f.path
                            /\ o.body = f.body
            /\ \A o \in fetched.bucket :
                    o.commit = fetched.commit =>
                        \E f \in fetched.files :
                            /\ <<fetched.commit, "/">> \o f.path = o.key
                            /\ f.body = o.body

\* Builds of sha1 and of sha2 both published app.zip, with different
\* content, and the download for sha1 brought sha1's.
C21_Witness ==
    /\ fetched # NoneDict
    /\ fetched.commit = "sha1"
    /\ \E o \in fetched.bucket :
            o.commit = "sha2" /\ o.key = <<"sha2", "/", "app.zip">> /\ o.body = "v2"
    /\ fetched.files = {[path |-> <<"app.zip">>, body |-> "v1", commit |-> "sha1"]}

\* ------------------------------------------------------------------ checkout
\* The three stage kinds that check the repository out, each on its own.

CheckoutStagesInit ==
    \/ Init
    \/ BuildInit
    \/ PipelineInit

CheckoutStagesNext ==
    \/ DeployNext
    \/ BuildNext
    \/ PipelineNext

CheckoutStagesSpec == CheckoutStagesInit /\ [][CheckoutStagesNext]_vars

\* In a call log: clone_repository is the first call, it returned normally
\* only with HEAD at the commit asked for, and nothing was called after a
\* clone_repository that raised.
CheckoutPinsRevision(log) ==
    /\ \A k \in 1..Len(log) : (log[k].op = "clone") = (k = 1)
    /\ Len(log) >= 1 =>
            /\ log[1].ok => log[1].head = commit_sha
            /\ ~log[1].ok => Len(log) = 1

BuildCheckoutFailed ==
    /\ b_pc = "raised"
    /\ Len(b_calls) >= 1
    /\ b_calls[1].op = "clone"
    /\ ~b_calls[1].ok

\* C23: a Build stage whose checkout failed has left no file in the
\* artifacts directory and no object under <commit_sha>/ in the artifact
\* store.
C23_FailedCheckoutLeavesNoArtifacts ==
    BuildCheckoutFailed =>
        /\ artifacts_files = {}
        /\ \A key \in s3_objects : ~StartsWith(key, <<commit_sha, "/">>)

\* ------------------------------------------------- build: artifact-path

\* C24: a Build stage that succeeded emitted, as its artifact path, the
\* location s3://<bucket>/<commit_sha>/ under which it published every
\* artifact, and in every generated topology that location is the build
\* node's artifact-path output, which every deploy node receives as its
\* artifact-path input.
C24_BuildEmitsPublishedLocation ==
    /\ b_pc = "returned" =>
            /\ b_ret.artifact_path = S3Path(s3_bucket, commit_sha)
            /\ \A f \in artifacts_files \ {<<"metadata.json">>} :
                    S3Key(commit_sha, f) \in s3_objects
    /\ \A g \in Range(generated) :
            LET nodes == Nodes(StepGroups(g.template_yaml))
                stages == StageTemplates(g.template_yaml)
            IN  /\ stages[1].name = <<"build">>
                /\ stages[1].outputs =
                        <<[name |-> "artifact-path",
                           value |-> <<"s3://", g.artifact_bucket,
                                       "/{{inputs.parameters.commit-sha}}/">>]>>
                /\ \A k \in 1..Len(nodes) :
                        nodes[k].name[1] = "deploy-" =>
                            ArgumentValue(nodes[k], "artifact-path") =
                                StepOutput(<<"build">>, "artifact-path")
\* ------------------------------------------------------ self-modification
\* The Pipeline-Deployment stage inside a run of the workflow. The stage's
\* code replaces the cluster's WorkflowTemplate; the engine that executes
\* runs is not code of this repository and is modelled as the
\* specification words it: a run resolves the topology when it starts and
\* keeps it, so a topology applied during a run is the next run's.

\* Most runs of the workflow followed.
MaxRuns == 2

\* The configuration of the revision whose run applied the topology in
\* place: two environments, none with tests.
PreviousConfigFile ==
    [version |-> "1.0",
     build |-> [commands |-> <<>>],
     environments |-> <<EnvironmentConfig("dev", NoneDict),
                        EnvironmentConfig("staging", NoneDict)>>]

\* The WorkflowTemplate the cluster holds when the run starts.
PreviousTemplate ==
    YamlDump(BuildWorkflowTemplate(ParseConfig(PreviousConfigFile), "artifacts-a"))

\* The stage sequence of a topology: the names of its nodes, in order.
StageSequence(yaml) ==
    LET nodes == Nodes(StepGroups(yaml))
    IN  [k \in 1..Len(nodes) |-> nodes[k].name]

\* The deploy stages of a stage sequence, in order.
DeployStagesOf(stages) == SelectSeq(stages, LAMBDA n : n[1] = "deploy-")

\* a is the beginning of b.
IsPrefixOf(a, b) == Len(a) <= Len(b) /\ a = SubSeq(b, 1, Len(a))

\* A run of the workflow: the topology it resolved at its start and the
\* stages it has executed since.
WorkflowRun(template, executed) == [template |-> template, executed |-> executed]

\* The configurations the revision may hold here: none to MaxEnvs
\* environments in either order, each without tests or with a test command,
\* and no build command.
NextConfigFiles ==
    {f \in ConfigFiles :
        /\ f.build.commands = <<>>
        /\ \A k \in 1..Len(f.environments) :
                f.environments[k].tests # [commands |-> <<>>]}

\* The run the stage belongs to started from the topology in place and has
\* executed its build stage; the stage is about to run.
SelfModificationInit ==
    /\ commit_sha = "sha1"
    /\ config_file \in NextConfigFiles \cup {NoneDict}
    /\ continue_on_error \in BOOLEAN
    /\ config = NoneDict
    /\ p_pc = "clone"
    /\ p_calls = <<>>
    /\ p_exc = <<>>
    /\ template_yaml = NoneDict
    /\ template_file = NoneDict
    /\ applied_template = PreviousTemplate
    /\ generated = <<>>
    /\ workflow_runs = <<WorkflowRun(PreviousTemplate, <<<<"build">>>>)>>
    /\ DeployIdle
    /\ BuildIdle
    /\ TestIdle
    /\ StoreIdle
    /\ MonitoringIdle
    /\ NodeIdle
    /\ ValidationIdle

\* The engine starts a run once the stage is over: the run resolves the
\* template the cluster holds at that moment.
StartRun ==
    /\ p_pc \in {"returned", "raised"}
    /\ Len(workflow_runs) < MaxRuns
    /\ workflow_runs' = Append(workflow_runs, WorkflowRun(applied_template, <<>>))
    /\ UNCHANGED <<stageVars, storeVars, monitoringVars, nodeVars, validationVars>>

\* The engine moves run r to the next stage of the topology the run
\* resolved. In the run the stage belongs to, the stages after
\* pipeline-deployment wait for the stage to return; a stage that raised
\* fails the run.
ExecuteNextStage(r) ==
    LET run == workflow_runs[r]
        stages == StageSequence(run.template)
        k == Len(run.executed) + 1
    IN  /\ k <= Len(stages)
        /\ r = 1 => p_pc = "returned"
        /\ workflow_runs' =
                [workflow_runs EXCEPT ![r].executed = Append(run.executed, stages[k])]
        /\ UNCHANGED <<stageVars, storeVars, monitoringVars, nodeVars, validationVars>>

\* Some run moves to its next stage.
ExecuteStage == \E r \in 1..Len(workflow_runs) : ExecuteNextStage(r)

SelfModificationNext ==
    \/ PipelineCloneRepository
    \/ SynthesizePipelineStack
    \/ DeployPipelineStack
    \/ ReadConfiguration
    \/ GenerateWorkflowTemplate
    \/ ApplyWorkflowTemplate
    \/ StartRun
    \/ ExecuteStage

SelfModificationSpec == SelfModificationInit /\ [][SelfModificationNext]_vars

\* C25: a topology the Pipeline-Deployment stage applies takes effect on
\* the next run only. The run that applied it still holds the topology it
\* started with and executes that topology's stages, whatever the new
\* configuration's environments; a run started after the stage returned
\* holds the applied topology, which is the one generated from the
\* configuration, and executes its stages: one deploy stage for each
\* environment of the new configuration, in order.
C25_NewTopologyOnNextRunOnly ==
    /\ workflow_runs # <<>>
    /\ workflow_runs[1].template = PreviousTemplate
    /\ IsPrefixOf(workflow_runs[1].executed, StageSequence(PreviousTemplate))
    /\ \A r \in 2..Len(workflow_runs) :
        LET run == workflow_runs[r]
        IN  /\ IsPrefixOf(run.executed, StageSequence(run.template))
            /\ p_pc = "returned" =>
                /\ run.template = template_yaml
                /\ run.template = generated[Len(generated)].template_yaml
                /\ generated[Len(generated)].config = config
                /\ DeployStagesOf(StageSequence(run.template))
                        = [k \in 1..Len(config.environments) |->
                                <<"deploy-", config.environments[k].name>>]

\* The stage applied a topology of three environments where two were in
\* place; its own run went through the two deploy stages it started with
\* and the run started afterwards through the three new ones.
C25_Witness ==
    /\ p_pc = "returned"
    /\ Len(config.environments) = 3
    /\ applied_template # PreviousTemplate
    /\ Len(workflow_runs) = 2
    /\ workflow_runs[1].executed = StageSequence(PreviousTemplate)
    /\ Len(DeployStagesOf(workflow_runs[1].executed)) = 2
    /\ workflow_runs[2].executed = StageSequence(applied_template)
    /\ Len(DeployStagesOf(workflow_runs[2].executed)) = 3
\* --------------------------------- environment deploy: credentials after run
\* os.environ belongs to the process: a stage instance constructed next in
\* the same process starts with os_environ as the returned run left it
\* (__init__ reads and writes no environment variable).

\* C26: once run() has returned, the process environment holds none of the
\* temporary credentials the stage obtained for its target account, so the
\* stage instance that runs next in the process sees none of them.
C26_CredentialsGoneAfterRun ==
    Returned /\ assumed_credentials # NoneDict =>
        /\ os_environ["AWS_ACCESS_KEY_ID"] # assumed_credentials.AccessKeyId
        /\ os_environ["AWS_SECRET_ACCESS_KEY"] # assumed_credentials.SecretAccessKey
        /\ os_environ["AWS_SESSION_TOKEN"] # assumed_credentials.SessionToken
\* ----------------------------------------------------- workflow metadata
\* WorkflowMetadataRecorder of monitoring.py: the metadata of one workflow
\* run is one S3 object, metadata/workflows/<workflow_id>.json, which
\* update_workflow_status and add_stage_metadata read, change in memory and
\* write back whole. Each S3 call is a step; the stages of the run, each
\* with a recorder of its own, take their steps in any order.

WorkflowId == "wf-1"

\* s3_key = f"metadata/workflows/{metadata.workflow_id}.json"
MetadataKey(workflow_id) == <<"metadata/workflows/", workflow_id, ".json">>

\* create_workflow_metadata
CreateWorkflowMetadata(workflow_id, sha, branch) ==
    [workflow_id |-> workflow_id, commit_sha |-> sha, branch |-> branch,
     triggered_at |-> "t0", completed_at |-> None, status |-> "running",
     stages |-> <<>>]

\* create_stage_metadata, for the stage of writer w.
CreateStageMetadata(w) ==
    [stage_name |-> <<"stage-", w>>, started_at |-> "t1", completed_at |-> None,
     status |-> "running", error_message |-> None]

\* json.dumps(asdict(metadata), indent=2).encode('utf-8')
MetadataJson(metadata) == [content_type |-> "application/json", text |-> metadata]

\* WorkflowMetadata(**json.loads(body)), its stages rebuilt as StageMetadata
ParseMetadata(body) == body.text

\* The statuses update_workflow_status is called with.
FinalStatuses == {"succeeded", "failed"}

\* The metadata the bucket holds for the run.
StoredMetadata == ParseMetadata(metadata_store.body)

MonitoringInit ==
    /\ commit_sha = "sha1"
    /\ DeployIdle
    /\ BuildIdle
    /\ TestIdle
    /\ PipelineIdle
    /\ AuxIdle

\* record_workflow_metadata(create_workflow_metadata(...)) when the run
\* starts: put_object of the whole document. A put_object that fails raises
\* and leaves the bucket as it was.
RecordWorkflowMetadata ==
    /\ metadata_store = NoneDict
    /\ metadata_store' =
            [key |-> MetadataKey(WorkflowId),
             body |-> MetadataJson(CreateWorkflowMetadata(WorkflowId, commit_sha,
                                                          "main"))]
    /\ UNCHANGED <<recorders, stageVars, storeVars, engineVars, nodeVars, validationVars>>

\* What a call does to the metadata it retrieved, before it writes:
\* add_stage_metadata: metadata.stages.append(stage);
\* update_workflow_status: metadata.status = status, and completed_at when
\* one is given.
Changed(op, metadata) ==
    IF op.name = "add_stage_metadata"
    THEN [metadata EXCEPT !.stages = Append(metadata.stages, op.stage)]
    ELSE [metadata EXCEPT !.status = op.status,
                          !.completed_at = IF op.completed_at # None
                                           THEN op.completed_at
                                           ELSE metadata.completed_at]

\* The first half of the call op by writer w: retrieve_workflow_metadata
\* (get_object and parse; NoSuchKey or another ClientError raises out of
\* the call), then the change in memory.
Retrieve(w, op) ==
    /\ recorders[w].pc = "idle"
    /\ \/ /\ metadata_store # NoneDict
          /\ recorders' = [recorders EXCEPT ![w] =
                [pc |-> "retrieved", op |-> op,
                 metadata |-> Changed(op, ParseMetadata(metadata_store.body))]]
       \/ recorders' = [recorders EXCEPT ![w] =
                [pc |-> "raised", op |-> op, metadata |-> NoneDict]]
    /\ UNCHANGED <<metadata_store, stageVars, storeVars, engineVars, nodeVars, validationVars>>

\* add_stage_metadata up to its write.
RetrieveAndAddStage(w) ==
    Retrieve(w, [name |-> "add_stage_metadata", stage |-> CreateStageMetadata(w)])

\* update_workflow_status up to its write.
RetrieveAndUpdateStatus(w) ==
    \E status \in FinalStatuses, completed_at \in {None, "t2"} :
        Retrieve(w, [name |-> "update_workflow_status", status |-> status,
                     completed_at |-> completed_at])

\* record_workflow_metadata as the second half of a call: put_object of the
\* whole document the recorder holds; a ClientError raises.
RecordUpdatedMetadata(w) ==
    /\ recorders[w].pc = "retrieved"
    /\ \/ /\ metadata_store' =
                [key |-> MetadataKey(recorders[w].metadata.workflow_id),
                 body |-> MetadataJson(recorders[w].metadata)]
          /\ recorders' = [recorders EXCEPT ![w].pc = "returned"]
       \/ /\ recorders' = [recorders EXCEPT ![w].pc = "raised"]
          /\ UNCHANGED metadata_store
    /\ UNCHANGED <<stageVars, storeVars, engineVars, nodeVars, validationVars>>

AddStageRetrieves == \E w \in Writers : RetrieveAndAddStage(w)

UpdateStatusRetrieves == \E w \in Writers : RetrieveAndUpdateStatus(w)

RecorderWrites == \E w \in Writers : RecordUpdatedMetadata(w)

MonitoringNext ==
    \/ RecordWorkflowMetadata
    \/ AddStageRetrieves
    \/ UpdateStatusRetrieves
    \/ RecorderWrites

MonitoringSpec == MonitoringInit /\ [][MonitoringNext]_vars

\* The writers whose call of this name returned.
ReturnedCalls(name) ==
    {w \in Writers : recorders[w].pc = "returned" /\ recorders[w].op.name = name}

\* C27: under every interleaving of the stages' recorders no write is lost.
\* Once no call is between its read and its write, the stored metadata holds
\* the stage of every add_stage_metadata call that returned, and, if an
\* update_workflow_status call returned, the status one of them wrote.
C27_NoRecordedWriteIsLost ==
    (\A w \in Writers : recorders[w].pc # "retrieved") =>
        /\ \A w \in ReturnedCalls("add_stage_metadata") :
                \E k \in 1..Len(StoredMetadata.stages) :
                    StoredMetadata.stages[k] = recorders[w].op.stage
        /\ ReturnedCalls("update_workflow_status") # {} =>
                \E w \in ReturnedCalls("update_workflow_status") :
                    StoredMetadata.status = recorders[w].op.status
\* ------------------------------------ environment deploy: missing artifacts

\* The download_artifacts_from_s3 calls that found no object for the commit.
EmptyDownloads == {k \in CallsAt("download") : calls[k].outcome = "empty"}

\* C28: a published location without objects for the commit is a warning.
\* The stage does not fail at the artifact fetch: it holds no exception
\* when the download is over, the call that follows is the cross-account
\* resolution, any failure it reports later is not the download's, and
\* stacks are deployed after it.
C28_MissingArtifactsIsWarning ==
    \A k \in EmptyDownloads :
        /\ k = Len(calls) => pc = "resolve" /\ exc = <<>>
        /\ k < Len(calls) => calls[k + 1].op = "resolver"
        /\ exc # <<>> => exc[1] \notin {"S3 download failed",
                                        "Failed to download artifacts from S3: "}
        /\ \A d \in CallsAt("deploy") : d > k
        /\ Returned /\ ret.status = "success" =>
                Len(Deploys) = Len(environment.stacks)

\* A stage that found no artifacts has resolved the account, deployed its
\* stacks and returned success.
C28_Witness ==
    /\ EmptyDownloads # {}
    /\ ResolverCalls # <<>>
    /\ Deploys # <<>>
    /\ Returned
    /\ ret.status = "success"
\* ------------------------------------- environment deploy: output capture

\* C29: after a stack deploys successfully its outputs are queried. The
\* stack's result is a success with the outputs described, and with an
\* empty list when the stack has none or the query fails; the deployment
\* goes on with the next stack, and after the last stack the run does not
\* fail.
C29_OutputCaptureNeverFailsStack ==
    \A k \in CallsAt("deploy") :
        calls[k].ok =>
            LET pos == calls[k].pos
                stack == calls[k].stack
            IN  /\ k < Len(calls)
                /\ calls[k + 1].op = "describe_stacks"
                /\ calls[k + 1].stack = stack
                /\ IF Len(results) >= pos
                   THEN results[pos] =
                            [stack_name |-> stack, status |-> "success",
                             outputs |-> IF calls[k + 1].ok
                                         THEN calls[k + 1].outputs ELSE <<>>,
                             error_message |-> <<>>]
                   ELSE /\ results = <<>>
                        /\ \E j \in CallsAt("deploy") : j > k /\ ~calls[j].ok
                /\ IF pos < Len(environment.stacks)
                   THEN IF k + 1 = Len(calls)
                        THEN pc = "deploy" /\ idx = pos + 1 /\ exc = <<>>
                        ELSE /\ calls[k + 2].op = "deploy"
                             /\ calls[k + 2].pos = pos + 1
                   ELSE /\ pc \in {"save_outputs", "returned"}
                        /\ exc = <<>>
                        /\ Returned => ret.status = "success"

\* The first of two stacks deployed and its outputs could not be queried,
\* the second deployed with an output: the run returned success, the first
\* result with an empty output list.
C29_Witness ==
    /\ Returned
    /\ ret.status = "success"
    /\ Len(ret.stack_results) = 2
    /\ \E k \in CallsAt("describe_stacks") :
            /\ ~calls[k].ok
            /\ calls[k].stack = environment.stacks[1]
    /\ ret.stack_results[1].status = "success"
    /\ ret.stack_results[1].outputs = <<>>
    /\ ret.stack_results[2].outputs # <<>>
\* ------------------------------- environment deploy: consolidated outputs

\* The document holds one entry per stack of env.stacks, keyed by stack
\* name, and each entry maps exactly the output keys of that stack's result
\* to their value, description and export_name.
ConsolidatesEveryStack(doc) ==
    /\ DOMAIN doc = Range(environment.stacks)
    /\ Len(ret.stack_results) = Len(environment.stacks)
    /\ \A k \in 1..Len(ret.stack_results) :
        LET r == ret.stack_results[k]
            entry == doc[r.stack_name]
        IN  /\ r.stack_name = environment.stacks[k]
            /\ DOMAIN entry = {r.outputs[j].output_key : j \in 1..Len(r.outputs)}
            /\ \A j \in 1..Len(r.outputs) :
                    entry[r.outputs[j].output_key] =
                        [value |-> r.outputs[j].output_value,
                         description |-> r.outputs[j].description,
                         export_name |-> r.outputs[j].export_name]

\* C30: after a successful run the consolidated outputs document exists and
\* has exactly one entry per stack of env.stacks, keyed by stack name, each
\* mapping exactly the output keys captured for the stack to their value,
\* description and export_name.
C30_SuccessLeavesConsolidatedOutputs ==
    Returned /\ ret.status = "success" =>
        /\ outputs_file # NoneDict
        /\ ConsolidatesEveryStack(outputs_file.doc)
\* C30, amended: the consolidated outputs document is written by a
\* successful run only, and whenever it is written it has exactly one entry
\* per stack of env.stacks, keyed by stack name, each mapping exactly the
\* output keys captured for the stack to their value, description and
\* export_name.
C30_WrittenDocumentConsolidatesEveryStack ==
    outputs_file # NoneDict =>
        /\ Returned
        /\ ret.status = "success"
        /\ ConsolidatesEveryStack(outputs_file.doc)

\* Three stacks deployed, one of them with an output, and the document was
\* written.
C30_Witness ==
    /\ Returned
    /\ ret.status = "success"
    /\ outputs_file # NoneDict
    /\ Len(environment.stacks) = 3
    /\ \E k \in 1..3 : ret.stack_results[k].outputs # <<>>
    /\ \E k \in 1..3 : ret.stack_results[k].outputs = <<>>
\* ------------------------------------------------- generated nodes at work
\* What the containers of a generated topology do: the engine runs the bash
\* script of a deploy-<env> node and, once it succeeded, of the test-<env>
\* node bound to its stack-outputs output. Each statement of a script is a
\* step; with errexit on, a statement that exits nonzero and has no
\* '|| ...' ends the script.

\* Most stacks of the environment whose nodes run.
MaxScriptStacks == 2

\* Most test commands of the environment whose nodes run.
MaxTestCommands == 2

ScriptStackNames == <<"AppStack", "DataStack", "ApiStack", "AuthStack">>

ScriptTestCommands == <<"npm test", "npm run e2e", "npm run smoke", "npm run perf">>

\* The environments whose nodes run: some stacks, and tests declared with
\* some commands or not declared.
NodeEnvironments ==
    {[name |-> "dev", region |-> "us-east-1", account |-> "111111111111",
      stacks |-> [k \in 1..n |-> [name |-> ScriptStackNames[k], path |-> "."]],
      tests |-> tests] :
        n \in 1..MaxScriptStacks,
        tests \in {NoneDict} \cup
                  {[commands |-> [k \in 1..m |-> ScriptTestCommands[k]]] :
                        m \in 0..MaxTestCommands}}

\* What describe-stacks --query 'Stacks[0].Outputs' prints for a stack: its
\* outputs, none for a stack without outputs.
DescribedOutputs ==
    {<<>>, <<[OutputKey |-> "Url", OutputValue |-> "https://x"]>>}

\* The script the node that runs was generated with.
NodeScript ==
    IF n_node = "deploy"
    THEN GenerateEnvironmentStage(n_env, "artifacts-a").script
    ELSE GenerateTestStage(n_env).script

\* set -e has run in this node: errexit is on.
Errexit(log, node) ==
    \E k \in 1..Len(log) : log[k].node = node /\ log[k].cmd = <<"set -e">>

\* The exit codes a statement may end with: shell builtins exit zero.
StatementExits(stmt) ==
    IF Command(stmt)[1] \in {"set -e", "echo"} THEN {0} ELSE {0, 1}

\* What a statement that exited with this code wrote to standard output,
\* as far as a redirection keeps it: echo its argument ("[]" is the empty
\* list), describe-stacks the outputs when it succeeded, nothing otherwise.
StatementOutputs(stmt, exit) ==
    IF Command(stmt)[1] = "aws cloudformation describe-stacks" /\ exit = 0
    THEN DescribedOutputs
    ELSE {<<>>}

\* command > path: the file holds what the command printed.
WriteFile(files, path, content) ==
    {f \in files : f.path # path} \cup {[path |-> path, content |-> content]}

\* The content of the file at path; nothing was captured in a missing file.
FileContent(files, path) ==
    IF \E f \in files : f.path = path
    THEN (CHOOSE f \in files : f.path = path).content
    ELSE <<>>

\* The engine starts the deploy-<env> node of some environment.
NodeInit ==
    /\ commit_sha = "sha1"
    /\ n_env \in NodeEnvironments
    /\ n_node = "deploy"
    /\ n_pc = 1
    /\ n_log = <<>>
    /\ n_files = {}
    /\ n_phase = "Running"
    /\ n_params = NoneDict
    /\ DeployIdle
    /\ BuildIdle
    /\ TestIdle
    /\ PipelineIdle
    /\ StoreIdle
    /\ EngineIdle
    /\ MonitoringIdle
    /\ ValidationIdle

\* bash runs the next statement of the node's script.
RunStatement ==
    /\ n_phase = "Running"
    /\ n_pc <= Len(NodeScript)
    /\ LET stmt == NodeScript[n_pc]
       IN  \E exit \in StatementExits(stmt) :
           \E content \in StatementOutputs(stmt, exit) :
            /\ n_log' = Append(n_log, [node |-> n_node, cmd |-> Command(stmt),
                                       exit |-> exit])
            /\ n_files' = IF Redirect(stmt) # <<>>
                          THEN WriteFile(n_files, Redirect(stmt), content)
                          ELSE n_files
            /\ IF exit # 0 /\ ~Fallback(stmt) /\ Errexit(n_log, n_node)
               THEN n_phase' = "Failed" /\ n_pc' = n_pc
               ELSE IF n_pc = Len(NodeScript)
               THEN n_phase' = (IF exit = 0 \/ Fallback(stmt) THEN "Succeeded"
                                ELSE "Failed")
                    /\ n_pc' = n_pc
               ELSE n_phase' = n_phase /\ n_pc' = n_pc + 1
    /\ UNCHANGED <<n_env, n_node, n_params>>
    /\ UNCHANGED <<stageVars, storeVars, engineVars, monitoringVars,
                   validationVars>>

\* The output parameter of a node's template: valueFrom.path, the content
\* of that file when the container has exited.
OutputParameter(template, name, files) ==
    LET out == CHOOSE o \in Range(template.outputs) : o.name = name
    IN  FileContent(files, out.value)

\* The engine starts the test-<env> node once deploy-<env> succeeded, its
\* stack-outputs input bound, as the step's arguments say, to the
\* stack-outputs output of deploy-<env>.
StartTestNode ==
    /\ n_node = "deploy"
    /\ n_phase = "Succeeded"
    /\ HasTests(n_env)
    /\ TestStep(n_env).arguments[3].value
            = StepOutput(GenerateEnvironmentStage(n_env, "artifacts-a").name,
                         "stack-outputs")
    /\ n_params' =
            [stack_outputs |->
                OutputParameter(GenerateEnvironmentStage(n_env, "artifacts-a"),
                                "stack-outputs", n_files)]
    /\ n_node' = "test"
    /\ n_pc' = 1
    /\ n_phase' = "Running"
    /\ UNCHANGED <<n_env, n_log, n_files>>
    /\ UNCHANGED <<stageVars, storeVars, engineVars, monitoringVars,
                   validationVars>>

NodeNext ==
    \/ RunStatement
    \/ StartTestNode

NodeSpec == NodeInit /\ [][NodeNext]_vars

\* The outputs the deploy node captured for a stack: what its
\* describe-stacks statement left in /tmp/<stack>-outputs.json.
CapturedOutputs(stack) ==
    Range(FileContent(n_files, <<"/tmp/", stack.name, "-outputs.json">>))

\* C31: every output captured for a stack deployed by node deploy-<env> is
\* contained in the stack-outputs parameter node test-<env> receives.
C31_StackOutputsReachTestNode ==
    n_node = "test" =>
        \A j \in 1..Len(n_env.stacks) :
            CapturedOutputs(n_env.stacks[j]) \subseteq Range(n_params.stack_outputs)

\* The commands the test node has run once its clone, checkout and npm
\* install are over: the statements after the four that open its script.
TestCommandsRun ==
    LET ran == SelectSeq(n_log, LAMBDA e : e.node = "test")
    IN  [k \in 1..Len(ran) - 4 |-> ran[k + 4].cmd[1]]

\* The test node has got as far as its test commands.
TestCommandsReached ==
    /\ n_node = "test"
    /\ Len(SelectSeq(n_log, LAMBDA e : e.node = "test" /\ e.exit = 0)) >= 4

\* C32: the test-<env> node, when executed, runs every command of
\* env.tests.commands, in order, even when an earlier command exits
\* nonzero: once its container has exited, having reached the commands, all
\* of them have run.
C32_TestNodeRunsEveryCommand ==
    TestCommandsReached /\ n_phase \in {"Succeeded", "Failed"} =>
        TestCommandsRun = n_env.tests.commands
\* ------------------------------------------- build: diagnostics on failure

\* The step of run() that failed: the last entry of the call log.
FailedBuildCall == b_calls[Len(b_calls)]

\* C33: a failed Build stage surfaces the error of the step that failed,
\* whether or not its failure metadata could be saved and its error log
\* written and uploaded: the raised error is the checkout's, the failed
\* command's (with its exit code) or the artifact upload's, and nothing is
\* returned.
C33_PersistenceNeverMasksBuildError ==
    b_pc = "raised" =>
        /\ b_ret = NoneDict
        /\ b_calls # <<>>
        /\ FailedBuildCall.op \in {"clone", "run", "upload"}
        /\ FailedBuildCall.op = "clone" =>
                /\ ~FailedBuildCall.ok
                /\ b_exc[1] \in {"Git operation failed",
                                 "Failed to clone repository: "}
        /\ FailedBuildCall.op = "run" =>
                /\ FailedBuildCall.exit_code # 0
                /\ Len(b_exc) = 4
                /\ b_exc[1] = "Build command failed: "
                /\ b_exc[2] = FailedBuildCall.command
                /\ b_exc[4] = FailedBuildCall.exit_code
        /\ FailedBuildCall.op = "upload" =>
                /\ ~FailedBuildCall.ok
                /\ Len(b_exc) = 1
                /\ b_exc[1] = "S3 upload failed"

\* A build command failed, the failure metadata could not be saved, and the
\* stage raised the command's error.
C33_Witness ==
    /\ b_pc = "raised"
    /\ s3_bucket # None
    /\ FailedBuildCall.op = "run"
    /\ FailedBuildCall.exit_code # 0
    /\ metadata_json = NoneDict
    /\ <<"metadata.json">> \notin artifacts_files
    /\ b_exc[1] = "Build command failed: "
\* --------------------------------------- workflow metadata: status update

\* The write of writer w's update_workflow_status call happens in this step.
StatusUpdateWrites(w) ==
    /\ recorders[w].pc = "retrieved"
    /\ recorders[w].op.name = "update_workflow_status"
    /\ recorders'[w].pc = "returned"

\* The stored metadata after the step differs from the stored metadata
\* before it in nothing but what the call op sets.
OnlyStatusChanged(op, before, after) ==
    /\ after.status = op.status
    /\ after.completed_at = IF op.completed_at # None THEN op.completed_at
                            ELSE before.completed_at
    /\ after.workflow_id = before.workflow_id
    /\ after.commit_sha = before.commit_sha
    /\ after.branch = before.branch
    /\ after.triggered_at = before.triggered_at
    /\ after.stages = before.stages

\* C34: update_workflow_status changes only the status of the stored
\* workflow metadata, and completed_at when one is given: workflow_id,
\* commit_sha, branch, triggered_at and the stages are the same before and
\* after its write, and completed_at is unchanged when none is given.
C34_UpdateStatusChangesOnlyStatus ==
    [][\A w \in Writers :
        StatusUpdateWrites(w) =>
            OnlyStatusChanged(recorders[w].op,
                              ParseMetadata(metadata_store.body),
                              ParseMetadata(metadata_store'.body))]_vars
\* ------------------------------------ pipeline deployment: apply is last

\* The calls of this op that run() made and that did what they were asked.
SucceededBefore(op, k) ==
    \E j \in PipelineCallsAt(op) : j < k /\ ~PipelineCallFailed(p_calls[j])

\* Checkout, configuration parsing or topology generation failed.
TopologyStepFailed ==
    \E k \in PipelineCallsAt("clone") \cup PipelineCallsAt("read_configuration")
                \cup PipelineCallsAt("describe_stacks") :
        PipelineCallFailed(p_calls[k])

\* C35: the topology future runs use is replaced only by a complete
\* Pipeline-Deployment. run() applies at most once, only after its
\* checkout, its configuration parsing and its topology generation
\* succeeded, and what a successful apply installs is the topology generated
\* from the configuration parsed in this run; if one of those steps or the
\* apply itself fails, the previously applied topology is left as it was.
C35_OnlyCompleteRunReplacesTopology ==
    /\ Cardinality(PipelineCallsAt("apply")) <= 1
    /\ \A k \in PipelineCallsAt("apply") :
            /\ SucceededBefore("clone", k)
            /\ SucceededBefore("read_configuration", k)
            /\ SucceededBefore("describe_stacks", k)
            /\ config = ParseConfig(config_file)
            /\ \E g \in Range(generated) :
                    /\ g.by = "run"
                    /\ g.config = config
                    /\ g.template_yaml = template_yaml
                    /\ template_yaml =
                            YamlDump(BuildWorkflowTemplate(config, g.artifact_bucket))
            /\ applied_template =
                    (IF p_calls[k].outcome = "applied" THEN template_yaml
                     ELSE [previous |-> TRUE])
    /\ PipelineCallsAt("apply") = {} => applied_template = [previous |-> TRUE]
    /\ TopologyStepFailed =>
            /\ PipelineCallsAt("apply") = {}
            /\ applied_template = [previous |-> TRUE]
            /\ p_pc = "raised"

\* A stage whose synthesis failed under continue_on_error went on, parsed a
\* configuration of three environments, generated its topology and applied
\* it, once.
C35_Witness ==
    /\ p_pc = "returned"
    /\ Cardinality(PipelineCallsAt("apply")) = 1
    /\ applied_template = template_yaml
    /\ applied_template # [previous |-> TRUE]
    /\ Len(config.environments) = 3
    /\ \E k \in PipelineCallsAt("synth") : ~p_calls[k].ok
    /\ \A k \in PipelineCallsAt("deploy") : p_calls[k].ok
\* --------------------------------- pipeline deployment: synthesis, then deploy

\* C36: the deploy of the pipeline's own stack is attempted only if its
\* synthesis succeeded in the same run: every deploy call, and a stage about
\* to deploy, follows a synthesis that succeeded; after a synthesis that
\* failed under continue_on_error no deploy is attempted and the next step
\* is configuration parsing.
C36_DeployOnlyAfterSuccessfulSynthesis ==
    /\ \A k \in PipelineCallsAt("deploy") :
            \E j \in PipelineCallsAt("synth") : j < k /\ p_calls[j].ok
    /\ p_pc = "deploy" => \E j \in PipelineCallsAt("synth") : p_calls[j].ok
    /\ \A j \in PipelineCallsAt("synth") :
            ~p_calls[j].ok /\ continue_on_error =>
                /\ PipelineCallsAt("deploy") = {}
                /\ j < Len(p_calls) => p_calls[j + 1].op = "read_configuration"
                /\ j = Len(p_calls) => p_pc = "read"
\* ------------------------------------------ build: what a build publishes

\* The artifact files published for the commit: the objects under
\* <commit_sha>/ that are files of the build, the error log of a failed
\* stage apart.
PublishedArtifacts == s3_objects \ {S3Key(commit_sha, <<"error.log">>)}

\* The checkout succeeded and every build command ran and exited zero.
BuildFullySuccessful ==
    /\ b_calls # <<>>
    /\ b_calls[1].op = "clone"
    /\ b_calls[1].ok
    /\ \A i \in 1..Len(build_commands) :
            \E k \in 1..Len(b_calls) :
                /\ b_calls[k].op = "run"
                /\ b_calls[k].pos = i
                /\ b_calls[k].command = build_commands[i]
                /\ b_calls[k].exit_code = 0
    /\ \A k \in 1..Len(b_calls) : b_calls[k].op = "run" => b_calls[k].exit_code = 0

TestCommandFailed(call) ==
    call.outcome.kind # "completed" \/ call.outcome.returncode # 0

\* C38: when test commands fail, the Environment-Test stage persists the
\* results document, with one result per command and overall_status failed,
\* before it reports the failure: a stage that has raised after a command
\* failed has written that document.
C38_ResultsPersistedBeforeFailure ==
    t_pc = "raised" /\ (\E k \in 1..Len(t_calls) : TestCommandFailed(t_calls[k])) =>
        /\ test_results_json # NoneDict
        /\ Len(test_results_json.test_results) = Len(test_commands)
        /\ \A i \in 1..Len(test_commands) :
                test_results_json.test_results[i].command = test_commands[i]
        /\ test_results_json.overall_status = "failed"
\* ------------------------------------------------------ pre-run validation
\* validation.validate_all and validation_stage.main: the configuration is
\* parsed, then the credentials are checked for each environment, then the
\* CDK context and the build tools; every failure adds a message to errors.

\* Most environments of a validated configuration.
MaxValidatedEnvs == 2

\* What sts.get_caller_identity answers with the pipeline's credentials: the
\* account they belong to, or an error.
CallerIdentities == Accounts \cup {"NoCredentialsError", "ClientError"}

\* The configurations validated: some environments, each in an account.
ValidatedConfigs ==
    UNION {{[build |-> [commands |-> commands],
             environments |->
                [k \in 1..n |-> [name |-> EnvironmentNames[k],
                                 region |-> "us-east-1",
                                 account |-> accounts[k]]]] :
                commands \in {<<>>, <<"npm run build">>},
                accounts \in [1..n -> Accounts]} :
           n \in 0..MaxValidatedEnvs}

\* The arguments of one validation and the answers of its collaborators:
\* the entry point, --skip-aws-validation (main only), the configuration
\* file (NoneDict: parse_config raises), the caller identity, the accounts
\* in which the cross-account role can be assumed, whether the required
\* CDK context is there (None: no requirements) and the build tools.
ValidationArgs ==
    {a \in [entry : {"validate_all", "validation_stage"},
            skip_aws_validation : BOOLEAN,
            config_file : ValidatedConfigs \cup {NoneDict},
            caller : CallerIdentities,
            assumable : SUBSET Accounts,
            context : {None, "present", "missing"},
            tools : BOOLEAN] :
        a.entry = "validate_all" => ~a.skip_aws_validation}

\* validate_aws_credentials(account_id, region): the message of the
\* ValidationError it raises, <<>> when it returns True. The account
\* mismatch is raised inside the try block and leaves through its
\* 'except Exception' clause.
ValidateAwsCredentials(account_id, caller) ==
    IF caller = "NoCredentialsError"
    THEN <<"AWS credentials not found. Please configure AWS credentials.">>
    ELSE IF caller = "ClientError"
    THEN <<"AWS credential validation failed: ">>
    ELSE IF account_id # None /\ caller # account_id
    THEN <<"Unexpected error validating AWS credentials: ",
           "AWS account mismatch: expected ", account_id, ", got ", caller>>
    ELSE <<>>

\* return len(errors) == 0, errors; main exits with 1 if errors else 0.
ValidationResult(errs) ==
    [success |-> errs = <<>>, errors |-> errs,
     exit_code |-> IF errs = <<>> THEN 0 ELSE 1]

\* A validation is about to run.
ValidationInit ==
    /\ commit_sha = "sha1"
    /\ args \in ValidationArgs
    /\ v_config = NoneDict
    /\ errors = <<>>
    /\ v_i = 0
    /\ v_pc = "parse"
    /\ v_ret = NoneDict
    /\ DeployIdle
    /\ BuildIdle
    /\ TestIdle
    /\ PipelineIdle
    /\ StoreIdle
    /\ EngineIdle
    /\ MonitoringIdle
    /\ NodeIdle

\* 1. parse_config; without a valid configuration the validation ends.
ValidateConfiguration ==
    /\ v_pc = "parse"
    /\ IF args.config_file = NoneDict
       THEN /\ errors' = Append(errors, <<"Configuration validation failed: ">>)
            /\ v_ret' = ValidationResult(errors')
            /\ v_pc' = "returned"
            /\ UNCHANGED <<v_config, v_i>>
       ELSE /\ v_config' = args.config_file
            /\ IF args.skip_aws_validation \/ args.config_file.environments = <<>>
               THEN v_pc' = "context" /\ v_i' = v_i
               ELSE v_pc' = "credentials" /\ v_i' = 1
            /\ UNCHANGED <<errors, v_ret>>
    /\ UNCHANGED args
    /\ UNCHANGED <<stageVars, storeVars, engineVars, monitoringVars, nodeVars>>

\* 2. One iteration of 'for env in config.environments':
\* validate_aws_credentials(account_id=env.account, region=env.region).
ValidateEnvironmentCredentials ==
    /\ v_pc = "credentials"
    /\ LET env == v_config.environments[v_i]
           e == ValidateAwsCredentials(env.account, args.caller)
       IN  errors' = IF e = <<>> THEN errors
                     ELSE Append(errors,
                                 <<"AWS credential validation failed for ",
                                   env.name, ": ">> \o e)
    /\ IF v_i < Len(v_config.environments)
       THEN v_i' = v_i + 1 /\ v_pc' = v_pc
       ELSE v_i' = v_i /\ v_pc' = "context"
    /\ UNCHANGED <<args, v_config, v_ret>>
    /\ UNCHANGED <<stageVars, storeVars, engineVars, monitoringVars, nodeVars>>

\* 3. validate_cdk_context, if context requirements were given.
ValidateCdkContext ==
    /\ v_pc = "context"
    /\ errors' = IF args.context = "missing"
                 THEN Append(errors, <<"CDK context validation failed: ">>)
                 ELSE errors
    /\ v_pc' = "tools"
    /\ UNCHANGED <<args, v_config, v_i, v_ret>>
    /\ UNCHANGED <<stageVars, storeVars, engineVars, monitoringVars, nodeVars>>

\* 4. validate_build_tools for the first words of the build commands, and
\* the result.
ValidateBuildTools ==
    /\ v_pc = "tools"
    /\ errors' = IF v_config.build.commands # <<>> /\ ~args.tools
                 THEN Append(errors, <<"Build tool validation failed: ">>)
                 ELSE errors
    /\ v_ret' = ValidationResult(errors')
    /\ v_pc' = "returned"
    /\ UNCHANGED <<args, v_config, v_i>>
    /\ UNCHANGED <<stageVars, storeVars, engineVars, monitoringVars, nodeVars>>

ValidationNext ==
    \/ ValidateConfiguration
    \/ ValidateEnvironmentCredentials
    \/ ValidateCdkContext
    \/ ValidateBuildTools

ValidationSpec == ValidationInit /\ [][ValidationNext]_vars

\* The Environment-Deploy stage gets to deploy to this environment with the
\* pipeline's credentials: the caller identity resolves and, where the
\* stage needs to assume the cross-account role, the role can be assumed.
DeployableByStage(env) ==
    /\ args.caller \in Accounts
    /\ NeedsRoleAssumption(args.caller, env.account) =>
            env.account \in args.assumable

\* The AWS-credential errors reported for an environment.
CredentialErrorsFor(env) ==
    {k \in 1..Len(errors) :
        /\ errors[k][1] = "AWS credential validation failed for "
        /\ errors[k][2] = env.name}

\* C39: pre-run validation accepts every configuration the Environment-Deploy
\* stage is able to deploy: once validate_all or the validation stage has
\* finished, no AWS-credential error is reported for an environment the
\* stage can deploy to, a cross-account environment whose role can be
\* assumed included.
C39_ValidationAcceptsDeployableEnvironments ==
    v_pc = "returned" /\ v_config # NoneDict =>
        \A k \in 1..Len(v_config.environments) :
            DeployableByStage(v_config.environments[k]) =>
                CredentialErrorsFor(v_config.environments[k]) = {}

====
